---- MODULE Spec2Model ----
(***************************************************************************)
(* A model of the load stage of isekai: the strongly connected component  *)
(* decomposition (isekai/graphs.py), the build order derived from it, the  *)
(* phase loop of load() (isekai/operations/load.py), the two-pass object   *)
(* creation of ModelLoader (isekai/loaders.py) and the status transitions  *)
(* of a resource (isekai/models.py).                                       *)
(***************************************************************************)
EXTENDS Integers, Sequences, FiniteSets, TLC

\* ------------------------------------------------------------------------
\* Bounds
\* ------------------------------------------------------------------------
MaxNodes == 3
MaxEdges == 3

\* the functions of types.py: the longest part of a key, the longest string
\* parsed as a token, the longest list or tuple of an attribute tree
MaxPart == 2
MaxToken == 4
MaxItems == 2

\* ------------------------------------------------------------------------
\* Generic helpers
\* ------------------------------------------------------------------------
Min(a, b) == IF a <= b THEN a ELSE b

Range(s) == {s[i] : i \in 1..Len(s)}

NoDup(s) == \A i, j \in 1..Len(s) : s[i] = s[j] => i = j

SeqsNoDup(S) == {s \in UNION {[1..n -> S] : n \in 0..Cardinality(S)} : NoDup(s)}

\* position of x in the sequence s (0 when absent)
PosIn(s, x) == IF \E i \in 1..Len(s) : s[i] = x
               THEN CHOOSE i \in 1..Len(s) : s[i] = x /\ \A j \in 1..(i-1) : s[j] # x
               ELSE 0

RECURSIVE Flatten(_)
Flatten(ss) == IF ss = <<>> THEN <<>> ELSE Head(ss) \o Flatten(Tail(ss))

\* number of occurrences of x in the sequence s
Occurrences(s, x) == Cardinality({i \in 1..Len(s) : s[i] = x})

\* ------------------------------------------------------------------------
\* isekai/graphs.py : tarjan_scc
\* ------------------------------------------------------------------------
NotVisited == -1

\* lines 20-28: the listed nodes, then every endpoint not listed, in edge order
RECURSIVE given_order(_, _)
given_order(nodes, edges) ==
    IF edges = <<>> THEN nodes
    ELSE LET u  == Head(edges)[1]
             v  == Head(edges)[2]
             n1 == IF u \in Range(nodes) THEN nodes ELSE Append(nodes, u)
             n2 == IF v \in Range(n1) THEN n1 ELSE Append(n1, v)
         IN  given_order(n2, Tail(edges))

\* lines 31-33: adjacency lists, successors in the order the edges are given
RECURSIVE adjOf(_, _)
adjOf(u, edges) ==
    IF edges = <<>> THEN <<>>
    ELSE IF Head(edges)[1] = u
         THEN <<Head(edges)[2]>> \o adjOf(u, Tail(edges))
         ELSE adjOf(u, Tail(edges))

adj(node_set, edges) == [n \in node_set |-> adjOf(n, edges)]

\* lines 35-40: the state the nested function closes over
TarjanInit(node_set) ==
    [index    |-> 0,
     stack    |-> <<>>,
     on_stack |-> {},
     indices  |-> [n \in node_set |-> NotVisited],
     lowlink  |-> [n \in node_set |-> NotVisited],
     comps    |-> <<>>]

\* line 53: after the recursive call returns
LowAfterChild_Keep(st, v, w) == st.lowlink[v]

LowAfterChild(st, v, w) == Min(st.lowlink[v], st.lowlink[w])

\* lines 54-55: w is on the stack, hence in the current component
LowOnStack_NoBackEdge(st, v, w) == st.lowlink[v]

LowOnStack(st, v, w) == Min(st.lowlink[v], st.indices[w])

\* lines 58-66: pop the stack down to v; the popped nodes form one component
RECURSIVE PopComp(_, _, _)
PopComp(st, v, comp) ==
    LET w   == st.stack[Len(st.stack)]
        st1 == [st EXCEPT !.stack = SubSeq(@, 1, Len(@) - 1),
                          !.on_stack = @ \ {w}]
        c1  == Append(comp, w)
    IN  IF w = v THEN [st1 EXCEPT !.comps = Append(@, c1)]
        ELSE PopComp(st1, v, c1)

\* lines 42-66
RECURSIVE strongconnect(_, _, _)
RECURSIVE VisitSuccessors(_, _, _, _)
strongconnect(st, a, v) ==
    LET st1 == [st EXCEPT !.indices[v] = st.index,
                          !.lowlink[v] = st.index,
                          !.index = st.index + 1,
                          !.stack = Append(@, v),
                          !.on_stack = @ \cup {v}]
        st2 == VisitSuccessors(st1, a, v, 1)
    IN  IF st2.lowlink[v] = st2.indices[v] THEN PopComp(st2, v, <<>>) ELSE st2

\* lines 50-55: the loop over adj[v], from its i-th element on
VisitSuccessors(st, a, v, i) ==
    IF i > Len(a[v]) THEN st
    ELSE LET w == a[v][i] IN
         IF st.indices[w] = NotVisited
         THEN LET s == strongconnect(st, a, w)
              IN  VisitSuccessors([s EXCEPT !.lowlink[v] = LowAfterChild(s, v, w)],
                                  a, v, i + 1)
         ELSE IF w \in st.on_stack
              THEN VisitSuccessors([st EXCEPT !.lowlink[v] = LowOnStack(st, v, w)],
                                   a, v, i + 1)
              ELSE VisitSuccessors(st, a, v, i + 1)

\* lines 68-71: start a search at every node not reached yet
RECURSIVE TarjanLoop(_, _, _)
TarjanLoop(st, a, order) ==
    IF order = <<>> THEN st
    ELSE LET v == Head(order) IN
         IF st.indices[v] = NotVisited
         THEN TarjanLoop(strongconnect(st, a, v), a, Tail(order))
         ELSE TarjanLoop(st, a, Tail(order))

\* lines 73-76: node -> index (0-based, as in the code) of its component
NoComp == -1

CompId(comps, node_set) ==
    [n \in node_set |->
        IF \E c \in 1..Len(comps) : n \in Range(comps[c])
        THEN (CHOOSE c \in 1..Len(comps) :
                 n \in Range(comps[c])
                 /\ \A d \in (c+1)..Len(comps) : n \notin Range(comps[d])) - 1
        ELSE NoComp]

\* lines 7-78
tarjan_scc(nodes, edges) ==
    LET order    == given_order(nodes, edges)
        node_set == Range(order)
        st       == TarjanLoop(TarjanInit(node_set), adj(node_set, edges), order)
    IN  [comps |-> st.comps, comp_id |-> CompId(st.comps, node_set)]

\* ------------------------------------------------------------------------
\* isekai.utils.graphs.resolve_build_order (imported by load.py; the build
\* order resolver of the design: condensation, then dependency-first order)
\* ------------------------------------------------------------------------
\* an edge between two components when an underlying edge crosses them
Condensation(scc, edges) ==
    {<<scc.comp_id[edges[i][1]], scc.comp_id[edges[i][2]]>> : i \in
        {j \in 1..Len(edges) : scc.comp_id[edges[j][1]] # scc.comp_id[edges[j][2]]}}

\* depth-first search over the condensation; a component is emitted after
\* every component it depends on
RECURSIVE OrderVisit(_, _, _, _)
RECURSIVE OrderVisitDeps(_, _, _, _, _)
OrderVisit(st, c, cedges, n) ==
    IF c \in st.visited THEN st
    ELSE LET st1 == [st EXCEPT !.visited = @ \cup {c}]
             st2 == OrderVisitDeps(st1, c, 0, cedges, n)
         IN  [st2 EXCEPT !.out = Append(@, c)]

OrderVisitDeps(st, c, d, cedges, n) ==
    IF d >= n THEN st
    ELSE IF <<c, d>> \in cedges
         THEN OrderVisitDeps(OrderVisit(st, d, cedges, n), c, d + 1, cedges, n)
         ELSE OrderVisitDeps(st, c, d + 1, cedges, n)

RECURSIVE OrderLoop(_, _, _, _)
OrderLoop(st, c, cedges, n) ==
    IF c >= n THEN st
    ELSE OrderLoop(OrderVisit(st, c, cedges, n), c + 1, cedges, n)

\* the phases: one per component, each the list of the component's keys
resolve_build_order(nodes, edges) ==
    LET scc    == tarjan_scc(nodes, edges)
        n      == Len(scc.comps)
        cedges == Condensation(scc, edges)
        st     == OrderLoop([visited |-> {}, out |-> <<>>], 0, cedges, n)
    IN  [i \in 1..n |-> scc.comps[st.out[i] + 1]]

\* ------------------------------------------------------------------------
\* State
\* ------------------------------------------------------------------------
VARIABLES
    g_pc,      \* graph run: "input", "scc" (tarjan_scc returned), "order"
    g_nodes,   \* graph run: the nodes argument, a list
    g_edges,   \* graph run: the edges argument, a list of pairs
    g_scc,     \* graph run: what tarjan_scc returned
    g_order    \* graph run: what resolve_build_order returned

gvars == <<g_pc, g_nodes, g_edges, g_scc, g_order>>

VARIABLES
    r_deps,          \* Resource.dependencies of each row (load() only reads it)
    r_spec,          \* Resource.target_spec of each row, serialized (read only)
    loaders,         \* Resource.loaders, the configured list of loaders
    db,              \* the database: db.res the Resource rows, db.objs the target records
    db_snap,         \* the database as it was when the open transaction began
    pc,              \* where load() is
    key_to_resource, \* load(): the Resource instances fetched at the start
    graph,           \* load(): the build order, a list of phases
    pi,              \* load(): index of the phase being processed
    specs,           \* load(): the (key, spec) list of the phase
    li,              \* load(): index of the loader being tried
    key_to_obj,      \* load(): the identifier map, key -> primary key of its record
    ml,              \* ModelLoader.load(): its local variables
    err,             \* the exception raised in the phase ("" when none)
    result,          \* OperationResult.result ("" until load() returns)
    hist,            \* history: what this run did, per key (records created, specs
                     \* built, resolver calls), and the rows it started from
    other            \* the local variables of the other call of load(), when two
                     \* calls are made (its pc is "absent" when only one is)

\* what a step of load() leaves alone: the configuration, the other call
cvars == <<r_deps, r_spec, loaders, other>>

lvars == <<db, db_snap, pc, key_to_resource, graph, pi, specs, li, key_to_obj, ml,
           err, result, hist>>

VARIABLES
    t_pc,      \* types run: "input", "done" (the function has returned)
    t_in,      \* types run: the function applied and its argument
    t_out      \* types run: what the function returned

tvars == <<t_pc, t_in, t_out>>

vars == <<gvars, cvars, lvars, tvars>>

\* no function of isekai/types.py is being applied
TypesIdle ==
    /\ t_pc = "idle"
    /\ t_in = <<>>
    /\ t_out = <<>>

\* ------------------------------------------------------------------------
\* isekai/types.py: strings and keys
\* ------------------------------------------------------------------------
\* A string is a sequence of characters; the characters of a reference
\* prefix are taken together as one symbol, so that startswith(prefix) reads
\* the first symbol.

\* str.find(c): the position of the first c in s from i on, 0 when absent
RECURSIVE FindChar(_, _, _)
FindChar(s, c, i) ==
    IF i > Len(s) THEN 0
    ELSE IF s[i] = c THEN i ELSE FindChar(s, c, i + 1)

\* the position of the first "::" in s from i on, 0 when absent
RECURSIVE FindSep(_, _)
FindSep(s, i) ==
    IF i + 1 > Len(s) THEN 0
    ELSE IF s[i] = ":" /\ s[i + 1] = ":" THEN i ELSE FindSep(s, i + 1)

\* s[i:]
From(s, i) == SubSeq(s, i, Len(s))

\* s.split(c)
RECURSIVE split(_, _)
split(s, c) ==
    LET i == FindChar(s, c, 1)
    IN  IF i = 0 THEN <<s>>
        ELSE <<SubSeq(s, 1, i - 1)>> \o split(From(s, i + 1), c)

\* c.join(parts)
RECURSIVE join(_, _)
join(parts, c) ==
    IF parts = <<>> THEN <<>>
    ELSE IF Len(parts) = 1 THEN parts[1]
         ELSE parts[1] \o <<c>> \o join(Tail(parts), c)

startswith(s, prefix) == Len(s) >= 1 /\ s[1] = prefix

\* what a parser gives: a value, or ValueError raised
Ok(v) == [raised |-> FALSE, value |-> v]
ValueError == [raised |-> TRUE, value |-> <<>>]

\* types.py 13-20, Key
Key(type, value) == [type |-> type, value |-> value]

\* types.py 38-42, Key.__str__
Key_str(k) == k.type \o <<":">> \o k.value

\* types.py 30-31: a key string with an empty value is refused
EmptyValueRefused_Never(value) == FALSE

EmptyValueRefused(value) == value = <<>>

\* types.py 22-36, Key.from_string: split at the first ":"; ValueError when
\* there is none or when nothing follows it
Key_from_string(s) ==
    LET i == FindChar(s, ":", 1)
    IN  IF i = 0 THEN ValueError
        ELSE IF EmptyValueRefused(From(s, i + 1)) THEN ValueError
             ELSE Ok(Key(SubSeq(s, 1, i - 1), From(s, i + 1)))

\* ------------------------------------------------------------------------
\* Data of the load stage
\* ------------------------------------------------------------------------
Keys == {"a", "b", "c"}

\* the order in which a queryset yields the rows (by primary key)
KeyOrder == <<"a", "b", "c">>

\* isekai/models.py, AbstractResource.Status
SEEDED == "seeded"
EXTRACTED == "extracted"
MINED == "mined"
TRANSFORMED == "transformed"
LOADED == "loaded"

\* target_object_id IS NULL
NoId == 0

\* the reference prefixes of isekai/types.py
ResourcePrefix == "isekai-resource-ref:\\"
BlobPrefix == "isekai-blob-ref:\\"
ModelPrefix == "isekai-model-ref:\\"

\* A value of a Spec attribute:
\*   "lit"     a literal string, lit
\*   "ref"     ResourceRef(key, attr_path = path)
\*   "dict"    a mapping {"k": lit} without references
\*   "dictref" a mapping {"k": ResourceRef(key, attr_path = path)}
\*   "listref" a list [ResourceRef(key, attr_path = path)]
\*   "blob"    BlobRef(key)
\*   "dictblob" a mapping {"k": BlobRef(key)}
Lit(x) == [t |-> "lit", key |-> "", path |-> <<>>, lit |-> x]
Ref(k, p) == [t |-> "ref", key |-> k, path |-> p, lit |-> ""]
Dict(x) == [t |-> "dict", key |-> "", path |-> <<>>, lit |-> x]
DictRef(k, p) == [t |-> "dictref", key |-> k, path |-> p, lit |-> ""]
ListRef(k, p) == [t |-> "listref", key |-> k, path |-> p, lit |-> ""]
Blob(k) == [t |-> "blob", key |-> k, path |-> <<>>, lit |-> ""]
DictBlob(k) == [t |-> "dictblob", key |-> k, path |-> <<>>, lit |-> ""]

\* A value of the serialized spec (Resource.target_spec, JSON):
\*   "str"     a string: pre followed by key and path when pre # "", else lit
\*   "dictstr" a mapping {"k": such a string}
\*   "liststr" a list [such a string]
Str(pre, k, p, x) == [t |-> "str", pre |-> pre, key |-> k, path |-> p, lit |-> x]
DictStr(pre, k, p, x) == [t |-> "dictstr", pre |-> pre, key |-> k, path |-> p, lit |-> x]
ListStr(pre, k, p, x) == [t |-> "liststr", pre |-> pre, key |-> k, path |-> p, lit |-> x]

\* types.py 119-134, Spec.to_dict / serialize_value: a reference becomes its
\* token string, mappings are serialized member by member
serialize_value(v) ==
    CASE v.t = "ref"     -> Str(ResourcePrefix, v.key, v.path, "")
      [] v.t = "blob"    -> Str(BlobPrefix, v.key, <<>>, "")
      [] v.t = "dictref" -> DictStr(ResourcePrefix, v.key, v.path, "")
      [] v.t = "dictblob" -> DictStr(BlobPrefix, v.key, <<>>, "")
      [] v.t = "listref" -> ListStr(ResourcePrefix, v.key, v.path, "")
      [] v.t = "dict"    -> DictStr("", "", <<>>, v.lit)
      [] OTHER           -> Str("", "", <<>>, v.lit)

to_dict(attributes) == [f \in DOMAIN attributes |-> serialize_value(attributes[f])]

\* types.py 136-164, Spec.from_dict / deserialize_value: a string that starts
\* with the resource prefix is parsed into a ResourceRef, one that starts
\* with the blob prefix into a BlobRef, any other string is kept as it is
deserialize_string(w) ==
    CASE w.pre = ResourcePrefix -> Ref(w.key, w.path)
      [] w.pre = BlobPrefix     -> Blob(w.key)
      [] OTHER                  -> Lit(w.lit)

deserialize_value(w) ==
    LET inner == deserialize_string(w)
    IN  CASE w.t = "dictstr" ->
               IF inner.t = "ref" THEN DictRef(inner.key, inner.path)
               ELSE IF inner.t = "blob" THEN DictBlob(inner.key)
               ELSE Dict(inner.lit)
          [] w.t = "liststr" ->
               IF inner.t = "ref" THEN ListRef(inner.key, inner.path) ELSE inner
          [] OTHER -> inner

from_dict(data) == [f \in DOMAIN data |-> deserialize_value(data[f])]

\* A value held by a field of a target record:
\*   "none"  NULL
\*   "int"   an integer id (a primary key, or a temporary one)
\*   "str"   a string s
\*   "json"  a mapping {"k": id} when id # 0, else {"k": s}
\*   "list"  the related records of a many-to-many field, [id]
\*   "file"  a stored file whose content is the bytes s
\*   "proxy" a FileProxy (types.py 58-61) whose open() gives the bytes s
NoneVal == [t |-> "none", id |-> 0, s |-> ""]
IntVal(n) == [t |-> "int", id |-> n, s |-> ""]
StrVal(x) == [t |-> "str", id |-> 0, s |-> x]
JsonVal(n, x) == [t |-> "json", id |-> n, s |-> x]
ListVal(n) == [t |-> "list", id |-> n, s |-> ""]
FileVal(x) == [t |-> "file", id |-> 0, s |-> x]
ProxyVal(x) == [t |-> "proxy", id |-> 0, s |-> x]

\* the fields of the target model and Field.get_internal_type() of each
FieldNames == {"name", "fk", "txt", "json", "m2m", "file", "path"}

FieldType == [name |-> "CharField", fk |-> "ForeignKey", txt |-> "CharField",
              json |-> "JSONField", m2m |-> "ManyToManyField", file |-> "FileField",
              path |-> "FilePathField"]

\* Field.null of each: the path of the record is declared NOT NULL
FieldNull == [f \in FieldNames |-> f # "path"]

\* a target record as Model(**obj_fields) makes it: a field not given holds
\* its default, NULL or the empty string of a field declared NOT NULL
NewObject(obj_fields) ==
    [f \in FieldNames |->
        IF f \in DOMAIN obj_fields THEN obj_fields[f]
        ELSE IF FieldNull[f] THEN NoneVal ELSE StrVal("")]

\* a timestamp column: NULL, a time before the call, the time of the call
\* (timezone.now())
NoTime == 0
Earlier == 1
Now == 2

\* models.py 22, Resource.key as text: "type:value", and a text without ":"
KeyText == <<"t", ":", "k">>
BadKeyText == <<"k">>

\* models.py 46-48, Resource.target_content_type: "model" a content type
\* whose model class exists, "stale" one whose model_class() is None,
\* "none" NULL
ContentTypes == {"model", "stale", "none"}

\* a Resource row: the columns load() and transition_to() read or write
\* (models.py 22 key, 24-35 the data, 46-49 the target, 54-66 status,
\* timestamps and last_error)
Row(status, tid, le, at) ==
    [key |-> KeyText, target_content_type |-> "model",
     status |-> status, has_data |-> TRUE, target_object_id |-> tid, last_error |-> le,
     seeded_at |-> Earlier, extracted_at |-> NoTime, mined_at |-> NoTime,
     transformed_at |-> NoTime, loaded_at |-> at]

\* models.py 92 and 99, the two transitions transition_to() knows
KnownTransition_SkipStage(status, next_status) ==
    \/ status = SEEDED /\ next_status \in {EXTRACTED, MINED}
    \/ status = EXTRACTED /\ next_status = MINED

KnownTransition(status, next_status) ==
    \/ status = SEEDED /\ next_status = EXTRACTED
    \/ status = EXTRACTED /\ next_status = MINED

\* models.py 96-98 and 100-102: last_error cleared, the status set, the
\* timestamp of the stage reached set to the time of the call
Advanced_KeepError(res, next_status) ==
    IF next_status = EXTRACTED
    THEN [res EXCEPT !.status = next_status, !.extracted_at = Now]
    ELSE [res EXCEPT !.status = next_status, !.mined_at = Now]

Advanced(res, next_status) ==
    IF next_status = EXTRACTED
    THEN [res EXCEPT !.last_error = "", !.status = next_status, !.extracted_at = Now]
    ELSE [res EXCEPT !.last_error = "", !.status = next_status, !.mined_at = Now]

\* models.py 84-106, AbstractResource.transition_to: the resource after the
\* call, and whether TransitionError was raised
transition_to_Loads(res, next_status) ==
    IF res.status = TRANSFORMED /\ next_status = LOADED
    THEN [raised |-> FALSE,
          res |-> [res EXCEPT !.last_error = "", !.status = LOADED, !.loaded_at = Now]]
    ELSE IF ~KnownTransition(res.status, next_status) \/ (res.status = SEEDED /\ ~res.has_data)
         THEN [raised |-> TRUE, res |-> res]
         ELSE [raised |-> FALSE, res |-> Advanced(res, next_status)]

transition_to(res, next_status) ==
    IF ~KnownTransition(res.status, next_status)
    THEN [raised |-> TRUE, res |-> res]
    ELSE IF res.status = SEEDED /\ ~res.has_data
         THEN [raised |-> TRUE, res |-> res]
         ELSE [raised |-> FALSE, res |-> Advanced(res, next_status)]

\* the attribute sets a pending resource may carry: a name, and at most one
\* reference (a link, a text attribute of another record, a reference inside
\* a JSON mapping, a reference in a many-to-many list) or a JSON mapping
\* without references
AttrPaths == {<<"name">>, <<"txt">>}

\* a path of two attributes: the linked record of a record, then its name
LongPath == <<"fk", "name">>

AttributeChoices(k) ==
    LET base == [name |-> Lit(k)]
    IN  {base, [name |-> Lit(k), json |-> Dict("x")]}
        \cup {[name |-> Lit(k), fk |-> Ref(t, <<>>)] : t \in Keys}
        \cup {[name |-> Lit(k), txt |-> Ref(t, p)] : t \in Keys, p \in AttrPaths}
        \cup {[name |-> Lit(k), json |-> DictRef(t, <<>>)] : t \in Keys}
        \cup {[name |-> Lit(k), m2m |-> ListRef(t, <<>>)] : t \in Keys}
        \cup (IF k = "a" THEN {[name |-> Lit(k), txt |-> Ref("b", LongPath)]} ELSE {})
        \cup {[name |-> Lit(k), file |-> Blob(t)] : t \in {k, "c"}}
        \cup (IF k = "b" THEN {[name |-> Lit(k), json |-> DictRef(t, <<"name">>)] : t \in {"a", "b"}}
               ELSE {})
        \cup (IF k = "a"
               THEN {[name |-> Lit(k), path |-> Ref(t, <<"name">>)] : t \in {"a", "b"}}
                    \cup {[name |-> Lit(k), file |-> Ref("a", <<"name">>)],
                          [name |-> Lit(k), txt |-> ListRef("c", <<>>)],
                          [name |-> Lit(k), json |-> DictBlob("a")]}
               ELSE {})

\* the last key takes part as a dependency: already loaded, or pending with
\* at most a link to another resource
LastKeyChoices(k) ==
    {[name |-> Lit(k)]} \cup {[name |-> Lit(k), fk |-> Ref(t, <<>>)] : t \in Keys \ {k}}

\* an attribute defined as the text attribute of another record is given a
\* value by that record: the record's own text attribute is a literal, or
\* the name of some record
ReadsText(attributes) ==
    "txt" \in DOMAIN attributes /\ attributes["txt"].t = "ref"
    /\ attributes["txt"].path = <<"txt">>

WellFounded(attrs) ==
    \A k \in DOMAIN attrs :
        ReadsText(attrs[k]) =>
            attrs[k]["txt"].key # k /\ ~ReadsText(attrs[attrs[k]["txt"].key])

\* the keys the references of an attribute set target (what Spec.find_refs,
\* types.py 166-191, collects); they are among the declared dependencies
ref_keys(attributes) ==
    {attributes[f].key :
        f \in {g \in DOMAIN attributes :
                  attributes[g].t \in {"ref", "dictref", "listref", "blob", "dictblob"}}}

\* Resource.dependencies (models.py 38, set by the mine stage): the keys the
\* spec refers to, and for a spec without references possibly a key the
\* miner found
DeclaredOnly(attributes) ==
    IF ref_keys(attributes) = {} /\ DOMAIN attributes = {"name"} THEN {{}, {"b"}, {"c"}} ELSE {{}}

\* a resource without references whose key or target type the stages before
\* left unusable: its key text and its target content type
TargetChoices(attributes) ==
    {[key |-> KeyText, target_content_type |-> "model"]}
    \cup (IF DOMAIN attributes = {"name"}
          THEN {[key |-> BadKeyText, target_content_type |-> "model"]}
               \cup {[key |-> KeyText, target_content_type |-> ct] : ct \in ContentTypes}
          ELSE {})

LoaderLists == {<<"model">>, <<"base">>, <<"base", "model">>}

EmptyMap == [k \in {} |-> 0]

NoLoader ==
    [key_to_temp_fk |-> EmptyMap, key_to_object |-> EmptyMap, created_objects |-> <<>>,
     pending_refs |-> <<>>, pending_m2ms |-> <<>>, i |-> 0]

NoHist(rows) ==
    [made |-> [k \in Keys |-> 0], built |-> [k \in Keys |-> 0], calls |-> {},
     res0 |-> rows, failed |-> 0, nodes |-> <<>>, edges |-> <<>>, log |-> <<>>,
     objs0 |-> 0, after |-> ""]

\* load.py 24-66: the local variables of a call of load() that has not run
\* a statement yet
FreshCall(rows) ==
    [pc |-> "start", key_to_resource |-> EmptyMap, graph |-> <<>>, pi |-> 0,
     specs |-> <<>>, li |-> 0, key_to_obj |-> EmptyMap, ml |-> NoLoader,
     err |-> "", result |-> "", hist |-> NoHist(rows)]

\* no other call is made
Absent(rows) == [FreshCall(rows) EXCEPT !.pc = "absent"]

LoadIdle ==
    /\ r_deps = [k \in Keys |-> {}]
    /\ r_spec = [k \in Keys |-> EmptyMap]
    /\ loaders = <<>>
    /\ db = [res |-> [k \in Keys |-> Row(TRANSFORMED, NoId, "", 0)], objs |-> <<>>]
    /\ db_snap = db
    /\ pc = "idle"
    /\ key_to_resource = EmptyMap
    /\ graph = <<>>
    /\ pi = 0
    /\ specs = <<>>
    /\ li = 0
    /\ key_to_obj = EmptyMap
    /\ ml = NoLoader
    /\ err = ""
    /\ result = ""
    /\ hist = NoHist(db.res)
    /\ other = Absent(db.res)

\* ------------------------------------------------------------------------
\* The graph functions applied to bounded inputs
\* ------------------------------------------------------------------------
NodeIds == 1..MaxNodes

LexLess(e, f) == e[1] < f[1] \/ (e[1] = f[1] /\ e[2] < f[2])

\* the edges of a set as a list, ascending
RECURSIVE EdgeList(_)
EdgeList(E) ==
    IF E = {} THEN <<>>
    ELSE LET m == CHOOSE e \in E : \A f \in E \ {e} : LexLess(e, f)
         IN  <<m>> \o EdgeList(E \ {m})

Reverse(s) == [i \in 1..Len(s) |-> s[Len(s) + 1 - i]]

EdgeLists == UNION {{EdgeList(E), Reverse(EdgeList(E))} :
                    E \in {F \in SUBSET (NodeIds \X NodeIds) : Cardinality(F) <= MaxEdges}}

NoScc == [comps |-> <<>>, comp_id |-> <<>>]

GraphIdle ==
    /\ g_pc = "idle"
    /\ g_nodes = <<>>
    /\ g_edges = <<>>
    /\ g_scc = NoScc
    /\ g_order = <<>>

InitGraph ==
    /\ g_pc = "input"
    /\ g_nodes \in SeqsNoDup(NodeIds)
    /\ g_edges \in EdgeLists
    /\ g_scc = NoScc
    /\ g_order = <<>>
    /\ LoadIdle
    /\ TypesIdle

RunTarjan ==
    /\ g_pc = "input"
    /\ g_scc' = tarjan_scc(g_nodes, g_edges)
    /\ g_pc' = "scc"
    /\ UNCHANGED <<g_nodes, g_edges, g_order, cvars, lvars, tvars>>

RunBuildOrder ==
    /\ g_pc = "scc"
    /\ g_order' = resolve_build_order(g_nodes, g_edges)
    /\ g_pc' = "order"
    /\ UNCHANGED <<g_nodes, g_edges, g_scc, cvars, lvars, tvars>>

NextGraph == RunTarjan \/ RunBuildOrder

SpecGraph == InitGraph /\ [][NextGraph]_vars

\* ------------------------------------------------------------------------
\* Properties of the graph functions
\* ------------------------------------------------------------------------
EdgeSet(edges) == Range(edges)

AllNodes(nodes, edges) ==
    Range(nodes) \cup {e[1] : e \in EdgeSet(edges)} \cup {e[2] : e \in EdgeSet(edges)}

\* nodes reachable from the set S along the edges (S included)
RECURSIVE ReachFrom(_, _)
ReachFrom(S, E) ==
    LET T == S \cup {e[2] : e \in {f \in E : f[1] \in S}}
    IN  IF T = S THEN S ELSE ReachFrom(T, E)

Reaches(u, v, E) == v \in ReachFrom({u}, E)

MutuallyReachable(u, v, E) == Reaches(u, v, E) /\ Reaches(v, u, E)

SameComp(comps, u, v) == \E c \in 1..Len(comps) : u \in Range(comps[c]) /\ v \in Range(comps[c])

\* C1: every node, listed or only an endpoint of an edge, isolated or not, is
\* in exactly one returned component, and two nodes share a component if and
\* only if each is reachable from the other.
C1_SccPartition ==
    g_pc # "input" =>
        LET N == AllNodes(g_nodes, g_edges)
            E == EdgeSet(g_edges)
        IN  /\ \A n \in N : Occurrences(Flatten(g_scc.comps), n) = 1
            /\ Range(Flatten(g_scc.comps)) = N
            /\ \A u, v \in N : SameComp(g_scc.comps, u, v) <=> MutuallyReachable(u, v, E)

\* a run with a node that is only an edge endpoint, an isolated listed node
\* and a component of more than one node
C1_Witness ==
    /\ g_pc = "scc"
    /\ \E n \in AllNodes(g_nodes, g_edges) : n \notin Range(g_nodes)
    /\ \E n \in Range(g_nodes) : \A e \in EdgeSet(g_edges) : e[1] # n /\ e[2] # n
    /\ \E c \in 1..Len(g_scc.comps) : Len(g_scc.comps[c]) = 2

\* the listed nodes form a dependency cycle: some arrangement of all of them
\* in which each depends on the next and the last on the first
IsCycle(nodes, E) ==
    /\ Len(nodes) >= 2
    /\ \A e \in E : e[1] \in Range(nodes) /\ e[2] \in Range(nodes)
    /\ \E p \in SeqsNoDup(Range(nodes)) :
          /\ Len(p) = Len(nodes)
          /\ \A i \in 1..Len(p) : <<p[i], p[(i % Len(p)) + 1]>> \in E

\* the listed nodes form an acyclic chain p[1] -> p[2] -> ... -> p[N]
IsChainOf(p, nodes, E) ==
    /\ Len(p) = Len(nodes)
    /\ Range(p) = Range(nodes)
    /\ E = {<<p[i], p[i + 1]>> : i \in 1..(Len(p) - 1)}

IsChain(nodes, E) == Len(nodes) >= 1 /\ \E p \in SeqsNoDup(Range(nodes)) : IsChainOf(p, nodes, E)

\* index of the phase that holds the key n (0 when none does)
PhaseOf(order, n) ==
    IF \E i \in 1..Len(order) : n \in Range(order[i])
    THEN CHOOSE i \in 1..Len(order) : n \in Range(order[i])
    ELSE 0

\* C3: a dependency cycle of N resources gives exactly one phase holding all
\* N keys; an acyclic chain of N resources gives N singleton phases, each
\* resource after the one it depends on.
C3_CycleAndChainPhases ==
    g_pc = "order" =>
        LET E == EdgeSet(g_edges)
            N == Len(g_nodes)
        IN  /\ IsCycle(g_nodes, E) =>
                  /\ Len(g_order) = 1
                  /\ Len(g_order[1]) = N
                  /\ Range(g_order[1]) = Range(g_nodes)
            /\ IsChain(g_nodes, E) =>
                  /\ Len(g_order) = N
                  /\ \A i \in 1..Len(g_order) : Len(g_order[i]) = 1
                  /\ Range(Flatten(g_order)) = Range(g_nodes)
                  /\ \A e \in E : PhaseOf(g_order, e[2]) < PhaseOf(g_order, e[1])

\* a cycle through three resources has been ordered
C3_Witness ==
    /\ g_pc = "order"
    /\ Len(g_nodes) = 3
    /\ IsCycle(g_nodes, EdgeSet(g_edges))
    /\ Len(g_order) = 1

\* a chain of three resources has been ordered
C3_ChainReached ==
    /\ g_pc = "order"
    /\ Len(g_nodes) = 3
    /\ IsChain(g_nodes, EdgeSet(g_edges))
    /\ Len(g_order) = 3

\* C37: tarjan_scc returns the components in reverse topological order of the
\* condensation: for every edge (u, v) whose endpoints lie in different
\* components comp_id[v] < comp_id[u], so the component of a dependency comes
\* earlier in the returned list than the component that depends on it; and
\* comp_id maps every node to the (0-based) index of the component holding it.
C37_ReverseTopological ==
    g_pc # "input" =>
        LET N == AllNodes(g_nodes, g_edges)
            E == EdgeSet(g_edges)
        IN  /\ DOMAIN g_scc.comp_id = N
            /\ \A n \in N :
                  /\ g_scc.comp_id[n] \in 0..(Len(g_scc.comps) - 1)
                  /\ n \in Range(g_scc.comps[g_scc.comp_id[n] + 1])
            /\ \A e \in E :
                  ~SameComp(g_scc.comps, e[1], e[2])
                      => g_scc.comp_id[e[2]] < g_scc.comp_id[e[1]]

\* a component of two nodes that depends on a component outside it, and an
\* edge given before the edge it depends on
C37_Witness ==
    /\ g_pc = "scc"
    /\ \E e \in EdgeSet(g_edges) :
          /\ ~SameComp(g_scc.comps, e[1], e[2])
          /\ g_scc.comp_id[e[2]] < g_scc.comp_id[e[1]]
          /\ Len(g_scc.comps[g_scc.comp_id[e[1]] + 1]) = 2
    /\ \E i, j \in 1..Len(g_edges) :
          i < j /\ g_edges[i][2] = g_edges[j][1] /\ g_edges[i][1] # g_edges[j][2]

\* ------------------------------------------------------------------------
\* isekai/operations/load.py and isekai/loaders.py
\* ------------------------------------------------------------------------
\* load.py 34-41: the pending resources, in queryset order
PendingKeys(rows) == SelectSeq(KeyOrder, LAMBDA k : rows[k].status = TRANSFORMED)

\* load.py 49-58: an edge (resource, dependency) for every declared dependency
\* that is itself pending
\* load.py 57, `if dep.key in nodes`
IsPending_Always(dep, nodes) == TRUE

IsPending(dep, nodes) == dep \in Range(nodes)

RECURSIVE EdgesFrom(_, _, _)
EdgesFrom(k, ds, nodes) ==
    IF ds = <<>> THEN <<>>
    ELSE IF Head(ds) \in r_deps[k] /\ IsPending(Head(ds), nodes)
         THEN <<(<<k, Head(ds)>>)>> \o EdgesFrom(k, Tail(ds), nodes)
         ELSE EdgesFrom(k, Tail(ds), nodes)

RECURSIVE LoadEdges(_, _)
LoadEdges(rest, nodes) ==
    IF rest = <<>> THEN <<>>
    ELSE EdgesFrom(Head(rest), KeyOrder, nodes) \o LoadEdges(Tail(rest), nodes)

\* loaders.py 104: the first temporary identifier
TempIdStart == -1000000

\* load.py 73-88, resolver: the identifier map first, then the target of a
\* resource loaded earlier; ValueError when neither has the key
resolver_Placeholder(ref_key) == [raised |-> FALSE, value |-> IntVal(TempIdStart)]

resolver(ref_key) ==
    IF ref_key \in DOMAIN key_to_obj
    THEN [raised |-> FALSE, value |-> IntVal(key_to_obj[ref_key])]
    ELSE IF ref_key \in Keys /\ db.res[ref_key].target_object_id # NoId
         THEN [raised |-> FALSE, value |-> IntVal(db.res[ref_key].target_object_id)]
         ELSE [raised |-> TRUE, value |-> NoneVal]

\* an exception leaves the `with transaction.atomic()` block of load.py 125:
\* what the phase wrote is rolled back, the except clause is next
Rollback_Keep(d, snap) == d

Rollback(d, snap) == snap

Raise(e) ==
    /\ err' = e
    /\ db' = Rollback(db, db_snap)
    /\ pc' = "except"

\* loaders.py 101-116, _build_temp_fk_mapping (integer primary keys)
_build_temp_fk_mapping_Same(sp) == [k \in {sp[i][1] : i \in 1..Len(sp)} |-> TempIdStart]

_build_temp_fk_mapping(sp) ==
    [k \in {sp[i][1] : i \in 1..Len(sp)} |-> TempIdStart - (PosIn([i \in 1..Len(sp) |-> sp[i][1]], k) - 1)]

\* loaders.py 118-166, _get_temp_value_for_field
TempString == "temp_value"

_get_temp_value_for_field(field, ref_key, key_to_temp_fk) ==
    CASE FieldType[field] = "ForeignKey" -> IntVal(key_to_temp_fk[ref_key])
      [] FieldType[field] = "CharField"  -> StrVal(TempString)
      [] OTHER                           -> NoneVal

FieldOrder == <<"name", "fk", "txt", "json", "m2m", "file", "path">>

\* loaders.py 286-294, _has_refs
_has_refs(v) == v.t \in {"ref", "dictref", "listref", "blob", "dictblob"}

\* a literal as the record field stores it
Stored(v) == IF v.t = "dict" THEN JsonVal(0, v.lit) ELSE StrVal(v.lit)

\* loaders.py 213, 305 and 81: the target of a plain reference is one of the
\* keys of this call
IsInternal_Never(ref_key, keys) == FALSE

IsInternal(ref_key, keys) == ref_key \in keys

\* loaders.py 203-255: is the attribute given to the constructor, and as what
InternalRef(v, key_to_spec) == v.t = "ref" /\ IsInternal(v.key, key_to_spec)

FieldSet(f, v, key_to_spec, key_to_temp_fk) ==
    CASE v.t = "ref" ->
           IF IsInternal(v.key, key_to_spec)
           THEN _get_temp_value_for_field(f, v.key, key_to_temp_fk) # NoneVal
           ELSE TRUE
      [] v.t = "listref" -> FALSE
      [] OTHER -> ~(FieldType[f] = "JSONField" /\ _has_refs(v))

\* loaders.py 208-210: the file the field is given, the bytes read from what
\* the resolver returned, when that can be opened
OpenAndRead(file_ref) ==
    IF file_ref.t = "proxy"
    THEN [raised |-> FALSE, value |-> FileVal(file_ref.s)]
    ELSE [raised |-> TRUE, value |-> NoneVal]

FieldValue(f, v, key_to_spec, key_to_temp_fk) ==
    CASE v.t = "ref" ->
           IF IsInternal(v.key, key_to_spec)
           THEN _get_temp_value_for_field(f, v.key, key_to_temp_fk)
           ELSE resolver(v.key).value
      [] v.t = "blob" -> OpenAndRead(resolver(v.key).value).value
      [] OTHER -> Stored(v)

\* ------------------------------------------------------------------------
\* The run of load()
\* ------------------------------------------------------------------------
LoadInit ==
    /\ GraphIdle
    /\ TypesIdle
    /\ loaders \in LoaderLists
    /\ \E st \in {TRANSFORMED, LOADED} :
       \E A \in AttributeChoices("a"), B \in AttributeChoices("b") :
       \E C \in (IF st = LOADED THEN {[name |-> Lit("c")]} ELSE LastKeyChoices("c")) :
       \E X \in DeclaredOnly(A) :
       \E T \in TargetChoices(B) :
          LET attrs == ("a" :> A) @@ ("b" :> B) @@ ("c" :> C)
          IN  /\ WellFounded(attrs)
              /\ r_spec = [k \in Keys |-> to_dict(attrs[k])]
              /\ r_deps = [k \in Keys |-> ref_keys(attrs[k]) \cup (IF k = "a" THEN X ELSE {})]
              /\ db = [res  |-> [k \in Keys |->
                                   IF k = "c" /\ st = LOADED
                                   THEN Row(LOADED, 1, "", Earlier)
                                   ELSE IF k = "b"
                                   THEN [Row(TRANSFORMED, NoId, "old", 0) EXCEPT
                                            !.key = T.key,
                                            !.target_content_type = T.target_content_type]
                                   ELSE Row(TRANSFORMED, NoId, IF k = "a" THEN "" ELSE "old", 0)],
                       objs |-> IF st = LOADED
                                THEN <<NewObject([name |-> StrVal("c")])>>
                                ELSE <<>>]
    /\ db_snap = db
    /\ pc = "start"
    /\ key_to_resource = EmptyMap
    /\ graph = <<>>
    /\ pi = 0
    /\ specs = <<>>
    /\ li = 0
    /\ key_to_obj = EmptyMap
    /\ ml = NoLoader
    /\ err = ""
    /\ result = ""
    /\ hist = NoHist(db.res)

\* one call of load()
Init ==
    /\ LoadInit
    /\ other = Absent(db.res)

\* the other call has returned: its result, "raised" when an exception left
\* it, "" when it has not returned or was not made
ResultOf(call) ==
    CASE call.pc = "done"   -> call.result
      [] call.pc = "raised" -> "raised"
      [] OTHER              -> ""

\* load.py 19-64: fetch the pending resources, compute the build order
LoadStart ==
    /\ pc = "start"
    /\ LET nodes == PendingKeys(db.res)
           edges == LoadEdges(nodes, nodes)
           order == resolve_build_order(nodes, edges)
       IN  /\ key_to_resource' = [k \in Range(nodes) |-> db.res[k]]
           /\ graph' = order
           /\ hist' = [hist EXCEPT !.nodes = nodes, !.edges = edges, !.res0 = db.res,
                                   !.objs0 = Len(db.objs), !.after = ResultOf(other)]
           /\ pc' = IF order = <<>> THEN "finish" ELSE "specs"
    /\ key_to_obj' = EmptyMap
    /\ pi' = 1
    /\ UNCHANGED <<db, db_snap, specs, li, ml, err, result, cvars, gvars, tvars>>

\* load.py 108-114: what preparing the spec of a resource raises ("" when
\* nothing): the two assertions on the target type, then Key.from_string
PrepareError(resource) ==
    IF resource.target_content_type # "model" THEN "AssertionError"
    ELSE IF Key_from_string(resource.key).raised THEN "ValueError"
    ELSE ""

\* load.py 106-121: the first resource of the phase whose preparation raises
\* (0 when none does)
FirstUnprepared(node) ==
    IF \E i \in 1..Len(node) : PrepareError(key_to_resource[node[i]]) # ""
    THEN CHOOSE i \in 1..Len(node) :
             /\ PrepareError(key_to_resource[node[i]]) # ""
             /\ \A j \in 1..(i - 1) : PrepareError(key_to_resource[node[j]]) = ""
    ELSE 0

\* load.py 106-125: the statements before `try:` are outside the except
\* clause of line 151, an exception they raise leaves load()
Escapes(e) == /\ err' = e
              /\ pc' = "raised"

\* load.py 90-126: build the (key, spec) list of the phase, open the transaction
BuildSpecs ==
    /\ pc = "specs"
    /\ LET node == graph[pi]
           bad  == FirstUnprepared(node)
       IN  IF bad # 0
           THEN /\ Escapes(PrepareError(key_to_resource[node[bad]]))
                /\ UNCHANGED <<specs, hist, db_snap, li, ml>>
           ELSE /\ specs' = [i \in 1..Len(node) |-> <<node[i], from_dict(r_spec[node[i]])>>]
                /\ hist' = [hist EXCEPT !.built =
                               [k \in Keys |-> @[k] + Occurrences(node, k)],
                                        !.log = <<>>]
                /\ db_snap' = db
                /\ li' = 1
                /\ ml' = NoLoader
                /\ pc' = "loaders"
                /\ UNCHANGED err
    /\ UNCHANGED <<db, key_to_resource, graph, pi, key_to_obj, result, cvars, gvars, tvars>>

\* load.py 128-130 with loaders.py 13-17: BaseLoader.load returns nothing, the
\* next loader is tried
BaseLoaderLoad ==
    /\ pc = "loaders"
    /\ li <= Len(loaders)
    /\ loaders[li] = "base"
    /\ li' = li + 1
    /\ UNCHANGED <<db, db_snap, pc, key_to_resource, graph, pi, specs, key_to_obj, ml,
                   err, result, hist, cvars, gvars, tvars>>

\* load.py 128-130: no loader returned objects, created_objects is empty
NoLoaderLeft ==
    /\ pc = "loaders"
    /\ li > Len(loaders)
    /\ ml' = NoLoader
    /\ pc' = "mark"
    /\ UNCHANGED <<db, db_snap, key_to_resource, graph, pi, specs, li, key_to_obj,
                   err, result, hist, cvars, gvars, tvars>>

\* loaders.py 21-41: ModelLoader.load builds its maps and opens its transaction
ModelLoaderBegin ==
    /\ pc = "loaders"
    /\ li <= Len(loaders)
    /\ loaders[li] = "model"
    /\ ml' = [key_to_temp_fk  |-> _build_temp_fk_mapping(specs),
              key_to_object   |-> EmptyMap,
              created_objects |-> <<>>,
              pending_refs    |-> <<>>,
              pending_m2ms    |-> <<>>,
              i               |-> 1]
    /\ pc' = "create"
    /\ UNCHANGED <<db, db_snap, key_to_resource, graph, pi, specs, li, key_to_obj,
                   err, result, hist, cvars, gvars, tvars>>

\* the keys of the specs handed to ModelLoader.load (key_to_spec, loaders.py 29)
SpecKeys == {specs[j][1] : j \in 1..Len(specs)}

\* loaders.py 43-58: the create loop runs over every (key, spec), then the
\* loop over pending_refs, then the loop of the JSON updates
PassAfterCreate_Early(i, refs) ==
    IF refs # <<>> THEN "backfill" ELSE IF i < Len(specs) THEN "create" ELSE "json"

PassAfterCreate(i, refs) ==
    IF i < Len(specs) THEN "create" ELSE IF refs # <<>> THEN "backfill" ELSE "json"

\* loaders.py 168-263, _create_object: the record made for (key, spec), what
\* it appends to pending_refs and pending_m2ms, the resolver calls it makes.
\* A resolver call that fails raises ValueError, and what the resolver
\* returned for a blob reference raises AttributeError when it has no open()
_create_object(key, attrs, key_to_spec, key_to_temp_fk) ==
    LET external == {f \in DOMAIN attrs :
                        \/ attrs[f].t = "ref" /\ ~IsInternal(attrs[f].key, key_to_spec)
                        \/ attrs[f].t = "blob"}
        unopened == {f \in DOMAIN attrs :
                        /\ attrs[f].t = "blob"
                        /\ OpenAndRead(resolver(attrs[f].key).value).raised}
        lists    == SelectSeq(FieldOrder,
                              LAMBDA f : /\ f \in DOMAIN attrs
                                         /\ attrs[f].t = "listref"
                                         /\ FieldType[f] = "ManyToManyField")
        given    == {f \in DOMAIN attrs : FieldSet(f, attrs[f], key_to_spec, key_to_temp_fk)}
        deferred == SelectSeq(FieldOrder,
                              LAMBDA f : f \in DOMAIN attrs /\ InternalRef(attrs[f], key_to_spec))
    IN  [raised |-> IF \E f \in external : resolver(attrs[f].key).raised THEN "ValueError"
                    ELSE IF unopened # {} THEN "AttributeError"
                    ELSE "",
         obj |-> NewObject([f \in given |->
                              FieldValue(f, attrs[f], key_to_spec, key_to_temp_fk)]),
         pending_refs |-> [j \in 1..Len(deferred) |->
                             [obj_key |-> key, field_name |-> deferred[j],
                              ref |-> attrs[deferred[j]]]],
         pending_m2ms |-> [j \in 1..Len(lists) |->
                             [obj_key |-> key, field_name |-> lists[j], ref |-> attrs[lists[j]]]],
         calls |-> {<<key, attrs[f].key>> : f \in external}]

\* loaders.py 43-55: the create loop, _create_object for the next (key, spec)
CreateObject ==
    /\ pc = "create"
    /\ LET key    == specs[ml.i][1]
           c      == _create_object(key, specs[ml.i][2], SpecKeys, ml.key_to_temp_fk)
           pk     == Len(db.objs) + 1
           refs   == ml.pending_refs \o c.pending_refs
           called == hist.calls \cup c.calls
       IN  IF c.raised # ""
           THEN /\ Raise(c.raised)
                /\ hist' = [hist EXCEPT !.calls = called]
                /\ UNCHANGED ml
           ELSE /\ db' = [db EXCEPT !.objs = Append(@, c.obj)]
                /\ ml' = [ml EXCEPT !.key_to_object = (key :> pk) @@ @,
                                    !.created_objects = Append(@, <<key, pk>>),
                                    !.pending_refs = refs,
                                    !.pending_m2ms = @ \o c.pending_m2ms,
                                    !.i = IF ml.i = Len(specs) THEN 1 ELSE ml.i + 1]
                /\ pc' = PassAfterCreate(ml.i, refs)
                /\ hist' = [hist EXCEPT !.calls = called, !.made[key] = @ + 1,
                                        !.log = Append(@, <<"create", key>>)]
                /\ UNCHANGED err
    /\ UNCHANGED <<db_snap, key_to_resource, graph, pi, specs, li, key_to_obj, result,
                   cvars, gvars, tvars>>

\* loaders.py 63-64, `value = getattr(value, attr)` for each attribute of the
\* path in turn. An IntVal stands for the record with that primary key; the
\* link of a record gives the linked record, and raises DoesNotExist when the
\* link holds an identifier no record has; a value that is not a record has
\* none of the attributes
RECURSIVE Follow(_, _, _)
Follow(objs, value, path) ==
    IF path = <<>> THEN [raised |-> "", value |-> value]
    ELSE IF value.t # "int" THEN [raised |-> "AttributeError", value |-> NoneVal]
    ELSE LET attr == objs[value.id][Head(path)]
         IN  IF /\ FieldType[Head(path)] = "ForeignKey"
                /\ attr.t = "int" /\ attr.id \notin 1..Len(objs)
             THEN [raised |-> "DoesNotExist", value |-> NoneVal]
             ELSE Follow(objs, attr, Tail(path))

\* loaders.py 60-64: the referenced record, then each attribute of the path
AttrValue_NoPath(objs, ref_pk, path) == [raised |-> "", value |-> IntVal(ref_pk)]

AttrValue(objs, ref_pk, path) == Follow(objs, IntVal(ref_pk), path)

\* loaders.py 58-67: a deferred reference is given its value and the record
\* saved
ResolveRef(e, key_to_object, objs) ==
    LET value == AttrValue(objs, key_to_object[e.ref.key], e.ref.path)
    IN  [raised |-> value.raised,
         objs |-> IF value.raised # "" THEN objs
                  ELSE [objs EXCEPT ![key_to_object[e.obj_key]][e.field_name] = value.value]]

\* loaders.py 57-67: the backfill loop, the next deferred reference
ResolvePending ==
    /\ pc = "backfill"
    /\ LET e == ml.pending_refs[ml.i]
           r == ResolveRef(e, ml.key_to_object, db.objs)
       IN  IF r.raised # ""
           THEN /\ Raise(r.raised)
                /\ UNCHANGED <<ml, hist>>
           ELSE /\ db' = [db EXCEPT !.objs = r.objs]
                /\ ml' = [ml EXCEPT !.i = IF ml.i = Len(ml.pending_refs) THEN 1 ELSE ml.i + 1]
                /\ pc' = IF ml.i < Len(ml.pending_refs) THEN "backfill" ELSE "json"
                /\ hist' = [hist EXCEPT !.log = Append(@, <<"backfill", e.obj_key>>)]
                /\ UNCHANGED err
    /\ UNCHANGED <<db_snap, key_to_resource, graph, pi, specs, li, key_to_obj, result,
                   cvars, gvars, tvars>>

\* loaders.py 265-284 and 296-320, _update_json_fields with _resolve_refs.
\* A reference to a key of this call becomes the primary key of its record;
\* for any other key _resolve_refs takes `.pk` of what the resolver returns,
\* and the resolver of load() returns an integer
_update_json_fields(key, attrs, key_to_object, objs) ==
    LET has    == "json" \in DOMAIN attrs /\ attrs["json"].t = "dictref"
        v      == attrs["json"]
        inside == has /\ IsInternal(v.key, DOMAIN key_to_object)
    IN  [raised |-> IF has /\ ~inside
                    THEN (IF resolver(v.key).raised THEN "ValueError" ELSE "AttributeError")
                    ELSE "",
         objs |-> IF inside
                  THEN [objs EXCEPT ![key_to_object[key]]["json"] =
                                       JsonVal(key_to_object[v.key], "")]
                  ELSE objs,
         calls |-> IF has /\ ~inside THEN {<<key, v.key>>} ELSE {}]

\* loaders.py 69-73: the JSON loop, _update_json_fields for the next (key, spec)
UpdateJson ==
    /\ pc = "json"
    /\ LET key == specs[ml.i][1]
           u   == _update_json_fields(key, specs[ml.i][2], ml.key_to_object, db.objs)
       IN  IF u.raised # ""
           THEN /\ Raise(u.raised)
                /\ hist' = [hist EXCEPT !.calls = @ \cup u.calls]
                /\ UNCHANGED ml
           ELSE /\ db' = [db EXCEPT !.objs = u.objs]
                /\ ml' = [ml EXCEPT !.i = IF ml.i = Len(specs) THEN 1 ELSE ml.i + 1]
                /\ pc' = IF ml.i < Len(specs) THEN "json"
                         ELSE IF ml.pending_m2ms # <<>> THEN "m2m" ELSE "return"
                /\ hist' = [hist EXCEPT !.log = Append(@, <<"json", key>>)]
                /\ UNCHANGED err
    /\ UNCHANGED <<db_snap, key_to_resource, graph, pi, specs, li, key_to_obj, result,
                   cvars, gvars, tvars>>

\* loaders.py 80-84: the member a reference of the list stands for, the
\* record created in this call or what the resolver returns
M2MMember_Unresolved(ref_key, key_to_object) == 0

M2MMember(ref_key, key_to_object) ==
    IF IsInternal(ref_key, DOMAIN key_to_object)
    THEN key_to_object[ref_key]
    ELSE resolver(ref_key).value.id

\* loaders.py 76-90: the elements of a queued list are resolved and the
\* relation is set. A reference to a key of this call gives the record
\* created for it, any other reference goes to the resolver
SetRelation(e, key_to_object, objs) ==
    LET inside == IsInternal(e.ref.key, DOMAIN key_to_object)
    IN  [raised |-> IF ~inside /\ resolver(e.ref.key).raised THEN "ValueError" ELSE "",
         objs |-> [objs EXCEPT ![key_to_object[e.obj_key]][e.field_name] =
                                 ListVal(M2MMember(e.ref.key, key_to_object))],
         calls |-> IF inside THEN {} ELSE {<<e.obj_key, e.ref.key>>}]

\* loaders.py 75-90: the many-to-many loop, the next queued list
SetM2M ==
    /\ pc = "m2m"
    /\ LET e == ml.pending_m2ms[ml.i]
           r == SetRelation(e, ml.key_to_object, db.objs)
       IN  IF r.raised # ""
           THEN /\ Raise(r.raised)
                /\ hist' = [hist EXCEPT !.calls = @ \cup r.calls]
                /\ UNCHANGED ml
           ELSE /\ db' = [db EXCEPT !.objs = r.objs]
                /\ ml' = [ml EXCEPT !.i = IF ml.i = Len(ml.pending_m2ms) THEN 1 ELSE ml.i + 1]
                /\ pc' = IF ml.i < Len(ml.pending_m2ms) THEN "m2m" ELSE "return"
                /\ hist' = [hist EXCEPT !.calls = @ \cup r.calls,
                                        !.log = Append(@, <<"m2m", e.obj_key>>)]
                /\ UNCHANGED err
    /\ UNCHANGED <<db_snap, key_to_resource, graph, pi, specs, li, key_to_obj, result,
                   cvars, gvars, tvars>>

\* connection.check_constraints(): every link points at a record that exists
ConstraintsHold(objs) ==
    \A n \in 1..Len(objs) : objs[n]["fk"].t = "int" => objs[n]["fk"].id \in 1..Len(objs)

\* loaders.py 21-94, ModelLoader.load as a function of the list it is given
\* and of the records the database holds: the four loops in turn, each up
\* to the first exception, then the constraint check
NoRun(objs) ==
    [raised |-> "", objs |-> objs, key_to_object |-> EmptyMap,
     pending_refs |-> <<>>, pending_m2ms |-> <<>>]

RECURSIVE CreateAll(_, _, _, _)
CreateAll(sp, i, key_to_temp_fk, st) ==
    IF i > Len(sp) \/ st.raised # "" THEN st
    ELSE LET c == _create_object(sp[i][1], sp[i][2], DOMAIN key_to_temp_fk, key_to_temp_fk)
         IN  CreateAll(sp, i + 1, key_to_temp_fk,
                 IF c.raised # "" THEN [st EXCEPT !.raised = c.raised]
                 ELSE [st EXCEPT !.objs = Append(@, c.obj),
                                 !.key_to_object = (sp[i][1] :> (Len(st.objs) + 1)) @@ @,
                                 !.pending_refs = @ \o c.pending_refs,
                                 !.pending_m2ms = @ \o c.pending_m2ms])

RECURSIVE ResolveAll(_, _)
ResolveAll(i, st) ==
    IF i > Len(st.pending_refs) \/ st.raised # "" THEN st
    ELSE LET r == ResolveRef(st.pending_refs[i], st.key_to_object, st.objs)
         IN  ResolveAll(i + 1, [st EXCEPT !.raised = r.raised, !.objs = r.objs])

RECURSIVE UpdateAll(_, _, _)
UpdateAll(sp, i, st) ==
    IF i > Len(sp) \/ st.raised # "" THEN st
    ELSE LET u == _update_json_fields(sp[i][1], sp[i][2], st.key_to_object, st.objs)
         IN  UpdateAll(sp, i + 1,
                 IF u.raised # "" THEN [st EXCEPT !.raised = u.raised]
                 ELSE [st EXCEPT !.objs = u.objs])

RECURSIVE SetAll(_, _)
SetAll(i, st) ==
    IF i > Len(st.pending_m2ms) \/ st.raised # "" THEN st
    ELSE LET r == SetRelation(st.pending_m2ms[i], st.key_to_object, st.objs)
         IN  SetAll(i + 1,
                 IF r.raised # "" THEN [st EXCEPT !.raised = r.raised]
                 ELSE [st EXCEPT !.objs = r.objs])

ModelLoader_load(sp, objs) ==
    LET st == SetAll(1, UpdateAll(sp, 1,
                  ResolveAll(1, CreateAll(sp, 1, _build_temp_fk_mapping(sp), NoRun(objs)))))
    IN  IF st.raised = "" /\ ~ConstraintsHold(st.objs)
        THEN [st EXCEPT !.raised = "IntegrityError"]
        ELSE st

\* loaders.py 92-94: constraints are checked, the created objects returned
LoaderReturn ==
    /\ pc = "return"
    /\ IF ConstraintsHold(db.objs)
       THEN /\ pc' = "mark"
            /\ UNCHANGED <<db, err>>
       ELSE Raise("IntegrityError")
    /\ UNCHANGED <<db_snap, key_to_resource, graph, pi, specs, li, key_to_obj, ml, result,
                   hist, cvars, gvars, tvars>>

\* load.py 132-137: the loop over the created objects, up to the first
\* transition that raises
RECURSIVE MarkLoop(_, _, _, _)
MarkLoop(co, i, kto, ktr) ==
    IF i > Len(co) THEN [raised |-> FALSE, key_to_obj |-> kto, key_to_resource |-> ktr]
    ELSE LET ckey == co[i][1]
             kto1 == (ckey :> co[i][2]) @@ kto
             res1 == [ktr[ckey] EXCEPT !.target_object_id = co[i][2]]
             tr   == transition_to(res1, LOADED)
         IN  IF tr.raised
             THEN [raised |-> TRUE, key_to_obj |-> kto1,
                   key_to_resource |-> [ktr EXCEPT ![ckey] = res1]]
             ELSE MarkLoop(co, i + 1, kto1, [ktr EXCEPT ![ckey] = tr.res])

\* load.py 90: the loop goes on with the next phase
AfterPhase_Same(i) == i

AfterPhase(i) == i + 1

\* load.py 132-150: the created objects enter the identifier map, their
\* resources are marked and saved, the transaction commits
MarkResources ==
    /\ pc = "mark"
    /\ LET co == ml.created_objects
           m  == MarkLoop(co, 1, key_to_obj, key_to_resource)
           up == {co[j][1] : j \in 1..Len(co)}
           marked == SelectSeq([j \in 1..Len(co) |-> <<"mark", co[j][1]>>],
                               LAMBDA x : x[2] \in DOMAIN m.key_to_obj)
       IN  /\ key_to_obj' = m.key_to_obj
           /\ hist' = [hist EXCEPT !.log = @ \o marked]
           /\ key_to_resource' = m.key_to_resource
           /\ IF m.raised
              THEN /\ Raise("TransitionError")
                   /\ UNCHANGED pi
              ELSE /\ db' = [db EXCEPT !.res =
                               [k \in Keys |-> IF k \in up THEN m.key_to_resource[k] ELSE @[k]]]
                   /\ pi' = AfterPhase(pi)
                   /\ pc' = IF AfterPhase(pi) > Len(graph) THEN "finish" ELSE "specs"
                   /\ UNCHANGED err
    /\ UNCHANGED <<db_snap, graph, specs, li, ml, result, cvars, gvars, tvars>>

\* a statement of the phase that goes to the database fails: a write of the
\* loader, or the opening of the transaction of load.py 125
StoreRaises ==
    /\ \/ pc \in {"create", "backfill", "json", "m2m", "return"}
       \/ pc = "loaders" /\ li = 1
    /\ Raise("DatabaseError")
    /\ UNCHANGED <<db_snap, key_to_resource, graph, pi, specs, li, key_to_obj, ml, result,
                   hist, cvars, gvars, tvars>>

\* where load() goes after the except clause
AfterFailure_Continue(i) == IF i + 1 > Len(graph) THEN "finish" ELSE "specs"

AfterFailure(i) == "done"

\* load.py 153-158: the resources that get the error, those of the phase
FailedKeys_AllPending(i) == DOMAIN key_to_resource

FailedKeys(i) == Range(graph[i])

\* load.py 151-184: every resource of the phase is re-read, given the error
\* and saved; load() returns a failure
HandleFailure ==
    /\ pc = "except"
    /\ LET node == FailedKeys(pi)
       IN  /\ key_to_resource' = [k \in DOMAIN key_to_resource |->
                                    IF k \in node
                                    THEN [db.res[k] EXCEPT !.last_error = err]
                                    ELSE key_to_resource[k]]
           /\ db' = [db EXCEPT !.res =
                       [k \in Keys |-> IF k \in node THEN [@[k] EXCEPT !.last_error = err]
                                       ELSE @[k]]]
    /\ pc' = AfterFailure(pi)
    /\ pi' = IF AfterFailure(pi) = "done" THEN pi ELSE pi + 1
    /\ result' = IF AfterFailure(pi) = "done" THEN "failure" ELSE result
    /\ UNCHANGED <<db_snap, graph, specs, li, key_to_obj, ml, err, hist, cvars, gvars, tvars>>

\* load.py 186-201: every phase was processed, load() returns a success
LoadFinish ==
    /\ pc = "finish"
    /\ result' = "success"
    /\ pc' = "done"
    /\ UNCHANGED <<db, db_snap, key_to_resource, graph, pi, specs, li, key_to_obj, ml, err,
                   hist, cvars, gvars, tvars>>

Next ==
    \/ LoadStart
    \/ BuildSpecs
    \/ BaseLoaderLoad
    \/ NoLoaderLeft
    \/ ModelLoaderBegin
    \/ CreateObject
    \/ ResolvePending
    \/ UpdateJson
    \/ SetM2M
    \/ LoaderReturn
    \/ MarkResources
    \/ StoreRaises
    \/ HandleFailure
    \/ LoadFinish

Spec == Init /\ [][Next]_vars

\* ------------------------------------------------------------------------
\* Two calls of load() on the same database
\* ------------------------------------------------------------------------
\* the specs of the resources when two calls are made: a name and at most a
\* link, and for the first key a list or a mapping with a reference
CallChoices(k) ==
    {[name |-> Lit(k)]}
    \cup {[name |-> Lit(k), fk |-> Ref(t, <<>>)] : t \in Keys \ {k}}
    \cup (IF k = "a"
          THEN {[name |-> Lit(k), m2m |-> ListRef("c", <<>>)],
                [name |-> Lit(k), json |-> DictRef("b", <<>>)]}
          ELSE {})

\* the statements of load() between which the other call may run: a
\* transaction (load.py 125-150) is isolated from the other call's, so the
\* calls interleave where no transaction is open
OutsideTransaction(p) == p \in {"specs", "except", "finish", "done", "raised"}

\* the local variables of the running call
Locals ==
    [pc |-> pc, key_to_resource |-> key_to_resource, graph |-> graph, pi |-> pi,
     specs |-> specs, li |-> li, key_to_obj |-> key_to_obj, ml |-> ml,
     err |-> err, result |-> result, hist |-> hist]

InitCalls ==
    /\ LoadInit
    /\ \A k \in Keys : from_dict(r_spec[k]) \in CallChoices(k)
    /\ \A k \in Keys : r_deps[k] = ref_keys(from_dict(r_spec[k]))
    /\ other = FreshCall(db.res)

\* the running call is suspended and the other call runs, until it is
\* suspended in turn or has returned
Switch ==
    /\ OutsideTransaction(pc)
    /\ other.pc \notin {"absent", "done", "raised"}
    /\ other' = Locals
    /\ pc' = other.pc
    /\ key_to_resource' = other.key_to_resource
    /\ graph' = other.graph
    /\ pi' = other.pi
    /\ specs' = other.specs
    /\ li' = other.li
    /\ key_to_obj' = other.key_to_obj
    /\ ml' = other.ml
    /\ err' = other.err
    /\ result' = other.result
    /\ hist' = other.hist
    /\ UNCHANGED <<db, db_snap, r_deps, r_spec, loaders, gvars, tvars>>

NextCalls == Next \/ Switch

SpecCalls == InitCalls /\ [][NextCalls]_vars

TypeOK == pc \in {"start", "specs", "loaders", "create", "backfill", "json", "m2m", "return",
                  "mark", "except", "finish", "done", "raised"}

\* ------------------------------------------------------------------------
\* Properties of load()
\* ------------------------------------------------------------------------
\* the keys that were pending when the run started
Pending0 == {k \in Keys : hist.res0[k].status = TRANSFORMED}

\* load() is working on the phase pi, from its loader calls to its marking
InPhase == pc \in {"loaders", "create", "backfill", "json", "m2m", "return", "mark"}

\* a phase has failed
Failed == pc \in {"except", "done"} /\ err # ""

\* the resource of key k is materialized: marked loaded, with the identifier
\* of an existing record, which the identifier map holds for k
Materialized(k) ==
    /\ db.res[k].status = LOADED
    /\ db.res[k].target_object_id \in 1..Len(db.objs)
    /\ k \in DOMAIN key_to_obj
    /\ key_to_obj[k] = db.res[k].target_object_id

\* the exceptions a loader raises
LoaderErrors == {"ValueError", "AttributeError", "IntegrityError", "DoesNotExist"}

\* the attributes of the pending resource k, as load() parses them
AttrsOf(k) == from_dict(r_spec[k])

\* the scalar link of k, when it has one, targets the key t
LinksTo(k, t) ==
    "fk" \in DOMAIN AttrsOf(k) /\ AttrsOf(k)["fk"].t = "ref" /\ AttrsOf(k)["fk"].key = t

\* k carries, nested in its JSON field, a reference to the key t
NestsRefTo(k, t) ==
    "json" \in DOMAIN AttrsOf(k) /\ AttrsOf(k)["json"].t = "dictref"
    /\ AttrsOf(k)["json"].key = t

\* a value is one of the placeholders of the create pass
IsPlaceholder(v) ==
    \/ v = StrVal(TempString)
    \/ v.t = "int" /\ v.id <= TempIdStart

\* C2: while load() works on the phase of a pending resource A, every pending
\* resource B that A depends on and that is in another phase is materialized
\* (record created, resource marked loaded, identifier in the identifier map),
\* and a link of A to B holds the identifier of B's record, not a placeholder.
C2_DependencyMaterializedFirst ==
    InPhase =>
        \A A \in Range(graph[pi]) : \A B \in r_deps[A] \cap Pending0 :
            PhaseOf(graph, B) # pi =>
                /\ Materialized(B)
                /\ \A j \in 1..Len(ml.created_objects) :
                      (ml.created_objects[j][1] = A /\ LinksTo(A, B)) =>
                          db.objs[ml.created_objects[j][2]]["fk"] = IntVal(key_to_obj[B])

\* C4 as claimed: each pending key is in exactly one phase, once, and load()
\* has built a spec for each pending resource exactly once when it returns.
C4_EveryKeyBuiltOnce ==
    /\ pc # "start" =>
          /\ Range(Flatten(graph)) = Pending0
          /\ \A k \in Pending0 : Occurrences(Flatten(graph), k) = 1
    /\ pc = "done" => \A k \in Pending0 : hist.built[k] = 1

\* C4, amended: each pending key is in exactly one phase, once; load() builds
\* a spec for a pending resource in at most one iteration of its phase loop,
\* and in exactly one when load() returns a success.
C4_EveryKeyBuiltAtMostOnce ==
    /\ pc # "start" =>
          /\ Range(Flatten(graph)) = Pending0
          /\ \A k \in Pending0 : Occurrences(Flatten(graph), k) = 1
    /\ \A k \in Keys : hist.built[k] <= 1
    /\ \A k \in Keys \ Pending0 : hist.built[k] = 0
    /\ result = "success" => \A k \in Pending0 : hist.built[k] = 1

\* a successful run over three pending resources in two phases, one of them
\* a cycle
C4_Witness ==
    /\ result = "success"
    /\ Cardinality(Pending0) = 3
    /\ Len(graph) = 2
    /\ \A k \in Pending0 : hist.built[k] = 1

\* C5: when pending resources reference each other in a cycle, one through a
\* scalar link and the other through a reference nested in its JSON field,
\* and ModelLoader is the loader and the database raises nothing, then once
\* load() has returned both are materialized from one phase, the link holds
\* the identifier of the referenced member's record and the nested reference
\* has been replaced by the identifier of the record it referred to.
C5_CycleMaterialized ==
    (pc = "done" /\ loaders = <<"model">> /\ err # "DatabaseError") =>
        \A A, B \in Pending0 :
            (A # B /\ LinksTo(A, B) /\ NestsRefTo(B, A)) =>
                /\ PhaseOf(graph, A) = PhaseOf(graph, B)
                /\ Materialized(A)
                /\ Materialized(B)
                /\ db.objs[db.res[A].target_object_id]["fk"]
                      = IntVal(db.res[B].target_object_id)
                /\ db.objs[db.res[B].target_object_id]["json"]
                      = JsonVal(db.res[A].target_object_id, "")

C7_IdentifierMapOnlyPending ==
    /\ DOMAIN key_to_obj \subseteq Pending0
    /\ \A k \in DOMAIN key_to_obj : hist.made[k] >= 1
    /\ InPhase =>
          \A j \in 1..Len(ml.created_objects) :
              LET A == ml.created_objects[j][1]
              IN  \A C \in Keys \ Pending0 :
                      LinksTo(A, C) =>
                          /\ db.objs[ml.created_objects[j][2]]["fk"]
                                = IntVal(hist.res0[C].target_object_id)
                          /\ <<A, C>> \in hist.calls
                          /\ C \notin DOMAIN key_to_obj

\* a record was created with a link to a resource loaded before the run, and
\* a key of this run has entered the identifier map
C7_Witness ==
    /\ key_to_obj # EmptyMap
    /\ \E A \in DOMAIN key_to_obj : \E C \in Keys \ Pending0 :
          LinksTo(A, C) /\ <<A, C>> \in hist.calls

\* C8: after load() has returned a failure, no resource of the failed phase
\* is marked loaded or has a target identifier, in the database or in
\* memory, and the store holds no record created for the phase.
C8_PhaseAtomic ==
    result = "failure" =>
        /\ \A k \in Range(graph[pi]) :
              /\ db.res[k].status = TRANSFORMED
              /\ db.res[k].target_object_id = NoId
              /\ db.res[k].loaded_at = 0
              /\ key_to_resource[k].status = TRANSFORMED
              /\ key_to_resource[k].target_object_id = NoId
        /\ db.objs = db_snap.objs

\* a phase of two resources failed after both records had been created
C8_Witness ==
    /\ result = "failure"
    /\ Len(graph[pi]) = 2
    /\ \A k \in Range(graph[pi]) : hist.made[k] = 1

\* the keys of the phases after the phase i
LaterKeys(i) == UNION {Range(graph[j]) : j \in (i + 1)..Len(graph)}

\* C9: once a phase has failed, nothing is done for a resource of a later
\* phase (no spec built, no record created, no resolver call, row and
\* instance as they were), load() returns 'failure', and it returns
\* 'success' only when no phase failed.
C9_StopsAfterFailure ==
    /\ Failed =>
          \A k \in LaterKeys(pi) :
              /\ hist.built[k] = 0
              /\ hist.made[k] = 0
              /\ \A c \in hist.calls : c[1] # k
              /\ db.res[k] = hist.res0[k]
              /\ key_to_resource[k] = hist.res0[k]
    /\ (pc = "done" /\ err # "") => result = "failure"
    /\ result = "success" => err = ""

\* the first of two phases failed after its record had been created
C9_Witness ==
    /\ result = "failure"
    /\ pi < Len(graph)
    /\ \E k \in Range(graph[pi]) : hist.made[k] = 1

\* C10: when a phase has failed, every resource of the phase has the error
\* in last_error and is still TRANSFORMED, and last_error of every other
\* resource is what it was.
C10_ErrorRecorded ==
    result = "failure" =>
        /\ err # ""
        /\ \A k \in Range(graph[pi]) :
              /\ db.res[k].last_error = err
              /\ db.res[k].status = TRANSFORMED
        /\ \A k \in Keys \ Range(graph[pi]) :
              db.res[k].last_error = hist.res0[k].last_error

\* a phase of two resources failed while a third resource, not of the
\* phase, carried an error of an earlier run
C10_Witness ==
    /\ result = "failure"
    /\ Len(graph[pi]) = 2
    /\ \E k \in Pending0 \ Range(graph[pi]) : db.res[k].last_error = "old"

\* the keys of the phases before the phase i
EarlierKeys(i) == UNION {Range(graph[j]) : j \in 1..(i - 1)}

\* C11: when a phase has failed, every resource of each earlier phase is as
\* its own phase left it: marked loaded, with loaded_at set, with the target
\* identifier the identifier map holds for it, and with its record present.
C11_EarlierPhasesKept ==
    result = "failure" =>
        \A k \in EarlierKeys(pi) :
            /\ Materialized(k)
            /\ db.res[k].loaded_at # NoTime

\* C12: when the loaders have created the records of a phase and neither a
\* loader nor the database has raised, every resource of the phase is LOADED,
\* has loaded_at set and has as target_object_id the identifier of the record
\* created for its key, which the identifier map (what resolver() reads for
\* later phases) holds for the key.
C12_PhaseMarkedLoaded ==
    \A k \in Keys :
        (/\ hist.made[k] >= 1
         /\ pc \in {"specs", "except", "finish", "done"}
         /\ err \notin {"DatabaseError"} \cup LoaderErrors)
        => /\ Materialized(k)
           /\ db.res[k].loaded_at # NoTime
           /\ resolver(k) = [raised |-> FALSE, value |-> IntVal(db.res[k].target_object_id)]

\* C13: when load() returns 'success', each resource that was TRANSFORMED when
\* the run started has had exactly one record created for it and is marked
\* loaded, whatever the list of loaders is.
C13_EveryPendingMaterializedOnce ==
    result = "success" =>
        \A k \in Pending0 :
            /\ hist.made[k] = 1
            /\ Materialized(k)

\* k carries, in its many-to-many list, a reference to the key t
ListsRefTo(k, t) ==
    "m2m" \in DOMAIN AttrsOf(k) /\ AttrsOf(k)["m2m"].t = "listref"
    /\ AttrsOf(k)["m2m"].key = t

\* the file attribute of k is a blob reference to the key t
BlobRefTo(k, t) ==
    "file" \in DOMAIN AttrsOf(k) /\ AttrsOf(k)["file"].t = "blob" /\ AttrsOf(k)["file"].key = t

\* C14: every resolver call ModelLoader.load makes for a plain reference is
\* for a key that is not among the specs of the call, whether the reference
\* is a scalar link, sits inside a JSON field or in a many-to-many list.
C14_NoResolverForInternal ==
    \A c \in hist.calls :
        ~BlobRefTo(c[1], c[2]) => c[2] \notin Range(graph[PhaseOf(graph, c[1])])

\* ModelLoader.load has returned for a phase of three resources that refer to
\* each other through a many-to-many list, a JSON field and a scalar link
C14_Witness ==
    /\ pc = "mark"
    /\ Len(ml.created_objects) = 3
    /\ \E A, B, C \in SpecKeys :
          ListsRefTo(A, B) /\ NestsRefTo(B, C) /\ LinksTo(C, A)

\* ------------------------------------------------------------------------
\* isekai/types.py: references as strings
\* ------------------------------------------------------------------------
\* A reference: kind "resource" (ResourceRef: key, attr_path), "blob"
\* (BlobRef: key) or "model" (ModelRef: content_type, lookup_kwargs,
\* attr_path). lookup_kwargs is the list of (name, value) in keyword order.
NoKey == Key(<<>>, <<>>)

ResourceRef(key, attr_path) ==
    [kind |-> "resource", key |-> key, attr_path |-> attr_path,
     content_type |-> <<>>, lookup_kwargs |-> <<>>]

BlobRef(key) ==
    [kind |-> "blob", key |-> key, attr_path |-> <<>>,
     content_type |-> <<>>, lookup_kwargs |-> <<>>]

ModelRef(content_type, attr_path, lookup_kwargs) ==
    [kind |-> "model", key |-> NoKey, attr_path |-> attr_path,
     content_type |-> content_type, lookup_kwargs |-> lookup_kwargs]

\* a Python value given as a lookup parameter: an int (s its digits) or a str
PyInt(s) == [t |-> "int", s |-> s]
PyStr(s) == [t |-> "str", s |-> s]

\* the attribute path as __str__ appends it (types.py 386-388, 309-311)
PathSuffix(attr_path) ==
    IF attr_path # <<>> THEN <<":", ":">> \o join(attr_path, ".") ELSE <<>>

\* types.py 214-218, BaseRef.__str__ (BlobRef)
BaseRef_str(r) == <<BlobPrefix>> \o Key_str(r.key)

\* types.py 381-388, ResourceRef.__str__
ResourceRef_str(r) == <<ResourcePrefix>> \o Key_str(r.key) \o PathSuffix(r.attr_path)

\* urllib.parse.urlencode: name=quote_plus(str(value)) joined by "&"; the
\* names and values used here are letters and digits, which quote_plus
\* leaves as they are
urlencode(kwargs) ==
    join([i \in 1..Len(kwargs) |-> kwargs[i][1] \o <<"=">> \o kwargs[i][2].s], "&")

\* types.py 301-311, ModelRef.__str__
ModelRef_str(r) ==
    <<ModelPrefix>> \o r.content_type \o <<"?">> \o urlencode(r.lookup_kwargs)
    \o PathSuffix(r.attr_path)

\* str(ref) of any kind (types.py 122, 179)
Ref_str(r) ==
    CASE r.kind = "resource" -> ResourceRef_str(r)
      [] r.kind = "blob"     -> BaseRef_str(r)
      [] OTHER               -> ModelRef_str(r)

\* types.py 203-212, BaseRef.from_string (BlobRef)
BaseRef_from_string(refstr) ==
    IF ~startswith(refstr, BlobPrefix) THEN ValueError
    ELSE LET key == Key_from_string(Tail(refstr))
         IN  IF key.raised THEN ValueError ELSE Ok(BlobRef(key.value))

\* types.py 371-376 and 281-286: the part before the first "::" and the
\* attribute path after it
BeforePath(rest) ==
    IF FindSep(rest, 1) > 0 THEN SubSeq(rest, 1, FindSep(rest, 1) - 1) ELSE rest

AttrPathOf(rest) ==
    IF FindSep(rest, 1) > 0 THEN split(From(rest, FindSep(rest, 1) + 2), ".") ELSE <<>>

\* types.py 358-379, ResourceRef.from_string
ResourceRef_from_string(refstr) ==
    IF ~startswith(refstr, ResourcePrefix) THEN ValueError
    ELSE LET rest == Tail(refstr)
             key  == Key_from_string(BeforePath(rest))
         IN  IF key.raised THEN ValueError
             ELSE Ok(ResourceRef(key.value, AttrPathOf(rest)))

\* urllib.parse.parse_qsl: the name=value fields of a query string, in
\* order; a field without "=" or with nothing after it is dropped
RECURSIVE parse_qsl(_)
parse_qsl(fields) ==
    IF fields = <<>> THEN <<>>
    ELSE LET f == Head(fields)
             i == FindChar(f, "=", 1)
         IN  IF i = 0 \/ From(f, i + 1) = <<>>
             THEN parse_qsl(Tail(fields))
             ELSE <<(<<SubSeq(f, 1, i - 1), From(f, i + 1)>>)>> \o parse_qsl(Tail(fields))

\* types.py 292-293: parse_qs groups the values by name; the first value of
\* each name is kept, as a str
RECURSIVE FirstByName(_, _)
FirstByName(pairs, seen) ==
    IF pairs = <<>> THEN <<>>
    ELSE IF Head(pairs)[1] \in seen THEN FirstByName(Tail(pairs), seen)
         ELSE <<(<<Head(pairs)[1], PyStr(Head(pairs)[2])>>)>>
              \o FirstByName(Tail(pairs), seen \cup {Head(pairs)[1]})

parse_qs(query_string) == FirstByName(parse_qsl(split(query_string, "&")), {})

\* types.py 268-299, ModelRef.from_string
ModelRef_from_string(refstr) ==
    IF ~startswith(refstr, ModelPrefix) THEN ValueError
    ELSE LET rest       == Tail(refstr)
             query_part == BeforePath(rest)
             q          == FindChar(query_part, "?", 1)
         IN  IF q = 0 THEN ValueError
             ELSE Ok(ModelRef(SubSeq(query_part, 1, q - 1), AttrPathOf(rest),
                              parse_qs(From(query_part, q + 1))))

\* from_string of the class of the reference r
Ref_from_string(kind, refstr) ==
    CASE kind = "resource" -> ResourceRef_from_string(refstr)
      [] kind = "blob"     -> BaseRef_from_string(refstr)
      [] OTHER             -> ModelRef_from_string(refstr)

\* ------------------------------------------------------------------------
\* isekai/types.py: Spec
\* ------------------------------------------------------------------------
\* A value of an attribute tree: PyStr and PyInt above, None, a reference, a
\* dict (its items in order), a list, a tuple.
PyNone == [t |-> "none"]
PyRef(r) == [t |-> "ref", ref |-> r]
PyDict(items) == [t |-> "dict", items |-> items]
PyList(items) == [t |-> "list", items |-> items]
PyTuple(items) == [t |-> "tuple", items |-> items]

\* types.py 114-117, Spec
SpecOf(content_type, attributes) ==
    [content_type |-> content_type, attributes |-> attributes]

\* types.py 120-127, serialize_value of Spec.to_dict
RECURSIVE Spec_serialize_value(_)
Spec_serialize_value(value) ==
    CASE value.t = "ref" -> PyStr(Ref_str(value.ref))
      [] value.t = "dict" ->
           PyDict([i \in 1..Len(value.items) |->
                     <<value.items[i][1], Spec_serialize_value(value.items[i][2])>>])
      [] value.t \in {"list", "tuple"} ->
           PyList([i \in 1..Len(value.items) |-> Spec_serialize_value(value.items[i])])
      [] OTHER -> value

\* types.py 119-134, Spec.to_dict
Spec_to_dict(spec) ==
    [content_type |-> spec.content_type,
     attributes   |-> Spec_serialize_value(spec.attributes)]

\* types.py 141-151: a string is parsed by the class whose prefix it starts
\* with; when the parser raises ValueError, or no prefix matches, the string
\* is returned
Spec_deserialize_string_AnyKey(value) ==
    IF Key_from_string(value.s).raised THEN value
    ELSE PyRef(BlobRef(Key_from_string(value.s).value))

Spec_deserialize_string(value) ==
    LET kind   == CASE startswith(value.s, ResourcePrefix) -> "resource"
                    [] startswith(value.s, BlobPrefix)     -> "blob"
                    [] startswith(value.s, ModelPrefix)    -> "model"
                    [] OTHER                               -> "none"
        parsed == Ref_from_string(kind, value.s)
    IN  IF kind = "none" \/ parsed.raised THEN value ELSE PyRef(parsed.value)

\* types.py 138-156, deserialize_value of Spec.from_dict
RECURSIVE Spec_deserialize_value(_)
Spec_deserialize_value(value) ==
    CASE value.t = "str" -> Spec_deserialize_string(value)
      [] value.t = "dict" ->
           PyDict([i \in 1..Len(value.items) |->
                     <<value.items[i][1], Spec_deserialize_value(value.items[i][2])>>])
      [] value.t \in {"list", "tuple"} ->
           PyList([i \in 1..Len(value.items) |-> Spec_deserialize_value(value.items[i])])
      [] OTHER -> value

\* types.py 136-164, Spec.from_dict
Spec_from_dict(data) ==
    SpecOf(data.content_type, Spec_deserialize_value(data.attributes))

\* types.py 176-188, collect_refs: refs and seen after the value is visited
RECURSIVE collect_refs(_, _)
RECURSIVE collect_items(_, _)
collect_refs(value, acc) ==
    CASE value.t = "ref" /\ value.ref.kind \in {"resource", "blob"} ->
           IF Ref_str(value.ref) \notin acc.seen
           THEN [refs |-> Append(acc.refs, value.ref),
                 seen |-> acc.seen \cup {Ref_str(value.ref)}]
           ELSE acc
      [] value.t = "dict" ->
           collect_items([i \in 1..Len(value.items) |-> value.items[i][2]], acc)
      [] value.t \in {"list", "tuple"} -> collect_items(value.items, acc)
      [] OTHER -> acc

collect_items(items, acc) ==
    IF items = <<>> THEN acc
    ELSE collect_items(Tail(items), collect_refs(Head(items), acc))

\* types.py 166-191, Spec.find_refs
find_refs(spec) == collect_refs(spec.attributes, [refs |-> <<>>, seen |-> {}]).refs

\* ------------------------------------------------------------------------
\* The functions of isekai/types.py applied to bounded inputs
\* ------------------------------------------------------------------------
\* the sequences over S of length at most n
SeqsUpTo(S, n) == UNION {[1..m -> S] : m \in 0..n}

\* keys whose type and value are written with a letter and ":"
KeyParts == SeqsUpTo({"a", ":"}, MaxPart)

TestKeys == {Key(type, value) : type \in KeyParts, value \in KeyParts}

\* attribute paths, as attribute access builds them (types.py 340-348)
TestPaths == SeqsUpTo({<<"a">>, <<"b">>}, 2)

\* lookup parameters: up to two keywords, an int or a str each
LookupValues == {PyInt(<<"4">>), PyStr(<<"4">>), PyStr(<<"a">>), PyStr(<<>>)}

TestLookups ==
    {<<>>}
    \cup {<<(<<(<<"p">>), v>>)>> : v \in LookupValues}
    \cup {<<(<<(<<"p">>), v>>), (<<(<<"q">>), w>>)>> : v \in LookupValues, w \in LookupValues}

TestContentType == <<"a", ".", "b">>

TestRefs ==
    {ResourceRef(k, path) : k \in {j \in TestKeys : j.value # <<>>}, path \in TestPaths}
    \cup {BlobRef(k) : k \in {j \in TestKeys : j.value # <<>>}}
    \cup {ModelRef(TestContentType, path, kw) : path \in TestPaths, kw \in TestLookups}

\* the strings handed to the parsers
TokenChars == {ResourcePrefix, BlobPrefix, ModelPrefix, "a", ":", "?"}

Tokens == SeqsUpTo(TokenChars, MaxToken)

ParserKinds == {"key", "resource", "blob", "model"}

\* the values of the attribute trees
K1 == Key(<<"a">>, <<"a">>)
K2 == Key(<<"a">>, <<"a", ":", ":", "a">>)

LeafRefs ==
    {ResourceRef(K1, <<>>), ResourceRef(K1, <<(<<"a">>)>>), ResourceRef(K2, <<>>),
     BlobRef(K1),
     ModelRef(TestContentType, <<(<<"a">>)>>, <<(<<(<<"p">>), PyInt(<<"4">>)>>)>>)}

Literals == {PyStr(<<"x">>), PyInt(<<"4">>), PyNone}

TreeLeaves ==
    Literals \cup {PyStr(Ref_str(ResourceRef(K1, <<>>)))} \cup {PyRef(r) : r \in LeafRefs}

\* a leaf, a list or a tuple of leaves, or a mapping that holds a leaf or a
\* list of one leaf
TreesOver(leaves) ==
    leaves
    \cup {PyList(x) : x \in SeqsUpTo(leaves, MaxItems)}
    \cup {PyTuple(x) : x \in SeqsUpTo(leaves, MaxItems)}
    \cup {PyDict(<<(<<(<<"k">>), v>>)>>) :
            v \in leaves \cup {PyList(x) : x \in SeqsUpTo(leaves, 1)}}

AttributesOver(trees, leaves) ==
    {PyDict(<<(<<(<<"f">>), v>>), (<<(<<"g">>), l>>)>>) : v \in trees, l \in leaves}

TestSpecs ==
    {SpecOf(TestContentType, attributes) :
        attributes \in AttributesOver(TreesOver(TreeLeaves), TreeLeaves)}

\* serialized specs as a JSON column holds them: strings with and without a
\* reference prefix, well formed or not, numbers, null, mappings and lists
DataLeaves ==
    Literals
    \cup {PyStr(Ref_str(r)) : r \in LeafRefs \ {ResourceRef(K1, <<>>), ResourceRef(K2, <<>>)}}
    \cup {PyStr(Key_str(K1)), PyStr(<<ResourcePrefix, "a">>), PyStr(<<ModelPrefix, "a">>)}

DataTrees ==
    DataLeaves
    \cup {PyList(x) : x \in SeqsUpTo(DataLeaves, MaxItems)}
    \cup {PyDict(<<(<<(<<"k">>), v>>)>>) :
            v \in DataLeaves \cup {PyList(x) : x \in SeqsUpTo(DataLeaves, 1)}}

TestData ==
    {SpecOf(TestContentType, attributes) :
        attributes \in AttributesOver(DataTrees, DataLeaves)}

\* the rows transition_to() is called on: every status, with and without
\* data, with and without an error of an earlier attempt, the timestamps of
\* the stages NULL or set
Statuses == {SEEDED, EXTRACTED, MINED, TRANSFORMED, LOADED}

TestRows ==
    {[Row(st, NoId, le, NoTime) EXCEPT !.has_data = d, !.extracted_at = e,
                                     !.mined_at = m, !.transformed_at = t] :
        st \in Statuses, le \in {"", "old"}, d \in BOOLEAN,
        e \in {NoTime, Earlier}, m \in {NoTime, Earlier}, t \in {NoTime, Earlier}}

TypesInputs ==
    {[op |-> "key", kind |-> "key", arg |-> k] : k \in TestKeys}
    \cup {[op |-> "ref", kind |-> r.kind, arg |-> r] : r \in TestRefs}
    \cup {[op |-> "parse", kind |-> kind, arg |-> tok] : kind \in ParserKinds, tok \in Tokens}
    \cup {[op |-> "spec", kind |-> "spec", arg |-> sp] : sp \in TestSpecs}
    \cup {[op |-> "from_dict", kind |-> "spec", arg |-> d] : d \in TestData}
    \cup {[op |-> "find_refs", kind |-> "spec", arg |-> sp] : sp \in TestSpecs}
    \cup {[op |-> "transition_to", kind |-> next_status, arg |-> res] :
            next_status \in Statuses, res \in TestRows}

InitTypes ==
    /\ GraphIdle
    /\ LoadIdle
    /\ t_pc = "input"
    /\ t_in \in TypesInputs
    /\ t_out = <<>>

\* str(key), then Key.from_string of it
KeyRoundTrip ==
    /\ t_pc = "input" /\ t_in.op = "key"
    /\ t_out' = [str |-> Key_str(t_in.arg), parsed |-> Key_from_string(Key_str(t_in.arg))]
    /\ t_pc' = "done"
    /\ UNCHANGED <<t_in, gvars, cvars, lvars>>

\* str(ref), then from_string of the class of ref
RefRoundTrip ==
    /\ t_pc = "input" /\ t_in.op = "ref"
    /\ t_out' = [str |-> Ref_str(t_in.arg),
                 parsed |-> Ref_from_string(t_in.kind, Ref_str(t_in.arg))]
    /\ t_pc' = "done"
    /\ UNCHANGED <<t_in, gvars, cvars, lvars>>

\* from_string of Key or of a reference class on a string
ParseToken ==
    /\ t_pc = "input" /\ t_in.op = "parse"
    /\ t_out' = IF t_in.kind = "key" THEN Key_from_string(t_in.arg)
                ELSE Ref_from_string(t_in.kind, t_in.arg)
    /\ t_pc' = "done"
    /\ UNCHANGED <<t_in, gvars, cvars, lvars>>

\* spec.to_dict(), then Spec.from_dict of it
SpecRoundTrip ==
    /\ t_pc = "input" /\ t_in.op = "spec"
    /\ t_out' = [dict |-> Spec_to_dict(t_in.arg),
                 spec |-> Spec_from_dict(Spec_to_dict(t_in.arg))]
    /\ t_pc' = "done"
    /\ UNCHANGED <<t_in, gvars, cvars, lvars>>

\* Spec.from_dict(data)
FromDict ==
    /\ t_pc = "input" /\ t_in.op = "from_dict"
    /\ t_out' = Spec_from_dict(t_in.arg)
    /\ t_pc' = "done"
    /\ UNCHANGED <<t_in, gvars, cvars, lvars>>

\* spec.find_refs()
FindRefs ==
    /\ t_pc = "input" /\ t_in.op = "find_refs"
    /\ t_out' = find_refs(t_in.arg)
    /\ t_pc' = "done"
    /\ UNCHANGED <<t_in, gvars, cvars, lvars>>

\* resource.transition_to(next_status)
TransitionTo ==
    /\ t_pc = "input" /\ t_in.op = "transition_to"
    /\ t_out' = transition_to(t_in.arg, t_in.kind)
    /\ t_pc' = "done"
    /\ UNCHANGED <<t_in, gvars, cvars, lvars>>

NextTypes ==
    \/ KeyRoundTrip
    \/ RefRoundTrip
    \/ ParseToken
    \/ SpecRoundTrip
    \/ FromDict
    \/ FindRefs
    \/ TransitionTo

SpecTypes == InitTypes /\ [][NextTypes]_vars

\* the function of the run has returned
Applied(op) == t_pc = "done" /\ t_in.op = op

\* ------------------------------------------------------------------------
\* Properties of the functions of isekai/types.py
\* ------------------------------------------------------------------------
\* C15: for every Spec whose attribute tree holds literals, nested mappings,
\* lists and tuples and references of the three kinds, with or without
\* attribute paths, Spec.from_dict(spec.to_dict()) equals the spec.
C15_SpecRoundTrip ==
    Applied("spec") => t_out.spec = t_in.arg

\* C16: for every Key with a non-empty value, str(key) is the type, a colon
\* and the value, and Key.from_string(str(key)) equals the key.
C16_KeyRoundTrip ==
    (Applied("key") /\ t_in.arg.value # <<>>) =>
        /\ t_out.str = t_in.arg.type \o <<":">> \o t_in.arg.value
        /\ t_out.parsed = Ok(t_in.arg)

\* C17: for every reference of each kind, from_string of its class applied to
\* its token string gives a reference equal to it.
C17_RefRoundTrip ==
    Applied("ref") => t_out.parsed = Ok(t_in.arg)

\* a string that reads as a key: a first ":" with something after it
ParsesAsKey(s) ==
    \E i \in 1..Len(s) :
        /\ s[i] = ":"
        /\ \A j \in 1..(i - 1) : s[j] # ":"
        /\ i < Len(s)

PrefixOf(kind) ==
    CASE kind = "resource" -> ResourcePrefix
      [] kind = "blob"     -> BlobPrefix
      [] OTHER             -> ModelPrefix

\* C18: a parser that fails raises and gives no value; Key.from_string fails
\* on a string without ":" or without a value after it; from_string of a
\* reference class fails on a string that does not start with the prefix of
\* the class, or whose remainder does not read as a key (ResourceRef,
\* BlobRef), or whose remainder has no lookup query (ModelRef).
C18_MalformedRejected ==
    Applied("parse") =>
        LET s    == t_in.arg
            kind == t_in.kind
        IN  /\ t_out.raised => t_out.value = <<>>
            /\ (kind = "key" /\ ~ParsesAsKey(s)) => t_out.raised
            /\ (kind # "key" /\ ~startswith(s, PrefixOf(kind))) => t_out.raised
            /\ (kind \in {"resource", "blob"} /\ startswith(s, PrefixOf(kind))
                /\ ~ParsesAsKey(Tail(s))) => t_out.raised
            /\ (kind = "model" /\ startswith(s, PrefixOf(kind))
                /\ "?" \notin Range(Tail(s))) => t_out.raised

\* ResourceRef.from_string was given its prefix followed by a type and ":"
\* with no value, and raised
C18_Witness ==
    /\ Applied("parse")
    /\ t_in.kind = "resource"
    /\ t_in.arg = <<ResourcePrefix, "a", ":">>
    /\ t_out.raised

HasRefPrefix(s) == Len(s) >= 1 /\ s[1] \in {ResourcePrefix, BlobPrefix, ModelPrefix}

\* w is v with nothing changed but strings that carry a reference prefix,
\* each of them kept or turned into a reference
RECURSIVE PassedThrough(_, _)
PassedThrough(v, w) ==
    CASE v.t = "str" -> IF HasRefPrefix(v.s) THEN w = v \/ w.t = "ref" ELSE w = v
      [] v.t = "dict" ->
           /\ w.t = "dict"
           /\ Len(w.items) = Len(v.items)
           /\ \A i \in 1..Len(v.items) :
                 /\ w.items[i][1] = v.items[i][1]
                 /\ PassedThrough(v.items[i][2], w.items[i][2])
      [] v.t = "list" ->
           /\ w.t = "list"
           /\ Len(w.items) = Len(v.items)
           /\ \A i \in 1..Len(v.items) : PassedThrough(v.items[i], w.items[i])
      [] OTHER -> w = v

\* C19: Spec.from_dict returns, at any depth of the attribute tree, every
\* string without a reference prefix and every literal that is not a string
\* as it was; only strings with a reference prefix become references.
C19_UnprefixedPassThrough ==
    Applied("from_dict") =>
        /\ t_out.content_type = t_in.arg.content_type
        /\ PassedThrough(t_in.arg.attributes, t_out.attributes)

\* from_dict was given a string that reads as a key, without a prefix, in a
\* list inside a mapping, next to a well formed token, which became a
\* reference
C19_Witness ==
    /\ Applied("from_dict")
    /\ t_in.arg.attributes.items[1][2]
          = PyDict(<<(<<(<<"k">>), PyList(<<PyStr(Key_str(K1))>>)>>)>>)
    /\ t_out.attributes.items[1][2] = t_in.arg.attributes.items[1][2]
    /\ t_out.attributes.items[2][2] = PyRef(ResourceRef(K1, <<(<<"a">>)>>))

\* the references of a tree in the order a traversal meets them
RECURSIVE RefsInOrder(_)
RECURSIVE RefsOfItems(_)
RefsInOrder(value) ==
    CASE value.t = "ref" -> <<value.ref>>
      [] value.t = "dict" -> RefsOfItems([i \in 1..Len(value.items) |-> value.items[i][2]])
      [] value.t \in {"list", "tuple"} -> RefsOfItems(value.items)
      [] OTHER -> <<>>

RefsOfItems(items) ==
    IF items = <<>> THEN <<>> ELSE RefsInOrder(Head(items)) \o RefsOfItems(Tail(items))

\* a list without the repetitions of an element after its first occurrence
RECURSIVE FirstOccurrences(_, _)
FirstOccurrences(refs, seen) ==
    IF refs = <<>> THEN <<>>
    ELSE IF Head(refs) \in seen THEN FirstOccurrences(Tail(refs), seen)
         ELSE <<Head(refs)>> \o FirstOccurrences(Tail(refs), seen \cup {Head(refs)})

\* C20: Spec.find_refs returns the plain and blob references of the
\* attribute tree, wherever they are, each distinct reference once, in the
\* order first met, and no Model Reference.
C20_FindRefsUniqueInOrder ==
    Applied("find_refs") =>
        t_out = FirstOccurrences(
                    SelectSeq(RefsInOrder(t_in.arg.attributes),
                              LAMBDA r : r.kind \in {"resource", "blob"}), {})

\* ------------------------------------------------------------------------
\* Properties of AbstractResource.transition_to
\* ------------------------------------------------------------------------
\* the stages in their order, and the timestamp column of each
Stages == <<SEEDED, EXTRACTED, MINED, TRANSFORMED, LOADED>>

StampOf == [seeded |-> "seeded_at", extracted |-> "extracted_at", mined |-> "mined_at",
            transformed |-> "transformed_at", loaded |-> "loaded_at"]

Stamps == {StampOf[st] : st \in Statuses}

\* next_status is the stage right after status
IsNextStage(status, next_status) ==
    \E i \in 1..(Len(Stages) - 1) : Stages[i] = status /\ Stages[i + 1] = next_status

\* C21: transition_to(next) changes the status only when next is the stage
\* right after the current one (from seeded only when the resource has
\* data), and then the status becomes next; every other request raises
\* TransitionError and leaves the status and every stage timestamp as they
\* were.
C21_OneStageAtATime ==
    Applied("transition_to") =>
        LET res == t_in.arg
            next_status == t_in.kind
            allowed == /\ IsNextStage(res.status, next_status)
                       /\ res.status = SEEDED => res.has_data
        IN  /\ t_out.res.status # res.status =>
                   allowed /\ ~t_out.raised /\ t_out.res.status = next_status
            /\ ~allowed =>
                   /\ t_out.raised
                   /\ t_out.res.status = res.status
                   /\ \A c \in Stamps : t_out.res[c] = res[c]

\* a transition happened, and a request that skips a stage was refused
C21_Witness ==
    /\ Applied("transition_to")
    /\ t_in.arg.status = SEEDED /\ t_in.arg.has_data
    /\ t_out.res.status = EXTRACTED

C21_RefusedReached ==
    /\ Applied("transition_to")
    /\ t_in.arg.status = SEEDED /\ t_in.kind = MINED
    /\ t_out.raised

\* C22: a transition_to that does not raise leaves last_error empty, sets
\* the timestamp of the stage reached to the time of the call and changes
\* no other stage timestamp.
C22_TransitionEffect ==
    (Applied("transition_to") /\ ~t_out.raised) =>
        /\ t_out.res.last_error = ""
        /\ t_out.res[StampOf[t_out.res.status]] = Now
        /\ \A c \in Stamps \ {StampOf[t_out.res.status]} : t_out.res[c] = t_in.arg[c]

\* a resource that carried an error and an old timestamp was advanced
C22_Witness ==
    /\ Applied("transition_to") /\ ~t_out.raised
    /\ t_in.arg.last_error = "old"
    /\ t_in.arg.status = EXTRACTED /\ t_in.arg.mined_at = Earlier

StepsOf(pass) == SelectSeq(hist.log, LAMBDA x : x[1] = pass)

PassRank == [create |-> 1, backfill |-> 2, json |-> 3, m2m |-> 4, mark |-> 5]

\* a step of a pass after `pass` was taken, or the loader is in such a pass
Beyond(pass, pcs) ==
    \/ \E n \in 1..Len(hist.log) : PassRank[hist.log[n][1]] > PassRank[pass]
    \/ pc \in pcs

\* C24: within a phase the passes run in a fixed order: every record is
\* created before any scalar backfill, every scalar backfill is done before
\* any JSON update, every JSON update before any many-to-many assignment,
\* and a resource is marked only after all passes are over.
C24_PassOrder ==
    /\ \A n \in 1..Len(hist.log) : \A m \in n..Len(hist.log) :
           PassRank[hist.log[n][1]] <= PassRank[hist.log[m][1]]
    /\ Beyond("create", {"backfill", "json", "m2m", "return"}) =>
           [j \in 1..Len(specs) |-> <<"create", specs[j][1]>>] = StepsOf("create")
    /\ Beyond("backfill", {"json", "m2m", "return"}) =>
           Len(StepsOf("backfill")) = Len(ml.pending_refs)
    /\ Beyond("json", {"m2m", "return"}) =>
           [j \in 1..Len(specs) |-> <<"json", specs[j][1]>>] = StepsOf("json")
    /\ Beyond("m2m", {"return"}) =>
           Len(StepsOf("m2m")) = Len(ml.pending_m2ms)

\* a phase of two records went through the four passes and reached the
\* marking of its resources
C24_Witness ==
    /\ Len(specs) = 2
    /\ StepsOf("backfill") # <<>>
    /\ StepsOf("m2m") # <<>>
    /\ StepsOf("mark") # <<>>

\* the value at the end of a path of at most two attributes that starts at
\* the record rec
ValueAt(objs, rec, path) ==
    CASE Len(path) = 0 -> IntVal(rec)
      [] Len(path) = 1 -> objs[rec][path[1]]
      [] OTHER         -> objs[objs[rec][path[1]].id][path[2]]

InLoader == pc \in {"create", "backfill", "json", "m2m", "return"}

\* what holds of the placeholders while ModelLoader.load runs
PlaceholdersHold ==
    /\ DOMAIN ml.key_to_temp_fk = SpecKeys
    /\ \A k \in SpecKeys : \A j \in SpecKeys \ {k} :
           ml.key_to_temp_fk[k] # ml.key_to_temp_fk[j]
    /\ \A k \in SpecKeys :
           /\ ml.key_to_temp_fk[k] <= TempIdStart
           /\ ml.key_to_temp_fk[k] \notin 1..Len(db.objs)
    /\ StepsOf("backfill") = <<>> =>
           \A k \in DOMAIN ml.key_to_object : \A t \in SpecKeys :
               LinksTo(k, t) =>
                   db.objs[ml.key_to_object[k]]["fk"] = IntVal(ml.key_to_temp_fk[t])

\* C30: within a call of ModelLoader.load every key of the call has one
\* placeholder identifier, which stays the same for the whole call; the
\* placeholders of distinct keys are distinct, each is at most -1000000
\* and so is the identifier of no record, and a link to a key of the call
\* is created holding that key's placeholder.
C30_Placeholders ==
    [][/\ InLoader' => PlaceholdersHold'
       /\ (InLoader /\ InLoader') => ml'.key_to_temp_fk = ml.key_to_temp_fk]_vars

\* two records that link to each other were created, each holding the
\* placeholder of the other
C30_Witness ==
    /\ pc = "backfill" /\ StepsOf("backfill") = <<>>
    /\ \E k \in SpecKeys : \E t \in SpecKeys \ {k} :
           /\ LinksTo(k, t) /\ LinksTo(t, k)
           /\ db.objs[ml.key_to_object[k]]["fk"] = IntVal(ml.key_to_temp_fk[t])
           /\ db.objs[ml.key_to_object[t]]["fk"] = IntVal(ml.key_to_temp_fk[k])

\* the many-to-many list of k holds a reference to the key t
M2MRefTo(k, t) ==
    "m2m" \in DOMAIN AttrsOf(k) /\ AttrsOf(k)["m2m"].t = "listref" /\ AttrsOf(k)["m2m"].key = t

C29_ExternalReached ==
    /\ pc = "return"
    /\ \E k \in SpecKeys : \E t \in Keys \ Pending0 :
           /\ M2MRefTo(k, t)
           /\ db.objs[ml.key_to_object[k]]["m2m"] = ListVal(hist.res0[t].target_object_id)

\* C26: when the create pass reaches a spec with a blob reference, the
\* resolver of load() is called for it and returns a byte-stream proxy, and
\* the record is created in that pass with the bytes read from the proxy in
\* the field, also when the reference targets the resource being created.
C26_BlobResolvedAtCreate ==
    \A k \in Keys : \A t \in Keys :
        (BlobRefTo(k, t) /\ <<k, t>> \in hist.calls) =>
            /\ hist.made[k] >= 1
            /\ (InLoader /\ k \in DOMAIN ml.key_to_object) =>
                   db.objs[ml.key_to_object[k]]["file"] = FileVal(t)

\* the identifier of the record of the key t as the phase at hand sees it:
\* created in this call, or the target of a resource materialized earlier
\* (NoId when there is none)
RecordOf(t) ==
    IF t \in DOMAIN ml.key_to_object THEN ml.key_to_object[t]
    ELSE hist.res0[t].target_object_id

\* C28: when the JSON pass reaches a record whose JSON field holds a
\* reference to a key that has a record, of the same phase or materialized
\* earlier (then resolved by the resolver of load()), the pass replaces the
\* reference: by the identifier of the record when the reference has no
\* attribute path, by the value at the end of the path when it has one.
C28_JsonRefsReplaced ==
    \A k \in SpecKeys : \A t \in Keys :
        (/\ k \in DOMAIN ml.key_to_object
         /\ "json" \in DOMAIN AttrsOf(k) /\ AttrsOf(k)["json"].t = "dictref"
         /\ AttrsOf(k)["json"].key = t
         /\ RecordOf(t) # NoId
         /\ <<"json", k>> \in Range(hist.log) \/ <<k, t>> \in hist.calls)
        => /\ <<"json", k>> \in Range(hist.log)
           /\ InLoader =>
                  db.objs[ml.key_to_object[k]]["json"] =
                      IF AttrsOf(k)["json"].path = <<>>
                      THEN JsonVal(RecordOf(t), "")
                      ELSE JsonVal(0, ValueAt(db.objs, RecordOf(t), AttrsOf(k)["json"].path).s)

\* the lists that hold the members of sp in another order
Reorderings(sp) ==
    {[i \in 1..Len(sp) |-> sp[p[i]]] :
        p \in {q \in [1..Len(sp) -> 1..Len(sp)] : \A i, j \in 1..Len(sp) : q[i] = q[j] => i = j}}

\* a field value with the identifier of a record of the call replaced by the
\* key of the record, and a placeholder by the word
UpToIds(v, key_to_object) ==
    IF v.t \notin {"int", "list", "json"} \/ v.id = 0 THEN [t |-> v.t, of |-> "", id |-> v.id, s |-> v.s]
    ELSE IF \E k \in DOMAIN key_to_object : key_to_object[k] = v.id
         THEN [t |-> v.t, of |-> CHOOSE k \in DOMAIN key_to_object : key_to_object[k] = v.id,
               id |-> 0, s |-> v.s]
         ELSE IF v.id <= TempIdStart THEN [t |-> v.t, of |-> "placeholder", id |-> 0, s |-> v.s]
         ELSE [t |-> v.t, of |-> "", id |-> v.id, s |-> v.s]

\* what a call of ModelLoader.load left: that it raised, or the fields of
\* the record of each key
Outcome(raised, key_to_object, objs) ==
    IF raised THEN [failed |-> TRUE, records |-> EmptyMap]
    ELSE [failed |-> FALSE,
          records |-> [k \in DOMAIN key_to_object |->
                         [f \in FieldNames |-> UpToIds(objs[key_to_object[k]][f], key_to_object)]]]

OutcomeOf(sp) ==
    LET run == ModelLoader_load(sp, db_snap.objs)
    IN  Outcome(run.raised # "", run.key_to_object, run.objs)

UnknownKind(f) == FieldType[f] \notin {"ForeignKey", "CharField"}

\* the fields of the (key, spec) at position j of the phase that hold a
\* reference to a key of the phase and are of unknown kind
UnknownKindRefs(j) ==
    {f \in DOMAIN specs[j][2] :
        InternalRef(specs[j][2][f], SpecKeys) /\ UnknownKind(f)}

\* C31: a same-phase reference in a field of unknown kind: a nullable field
\* receives no placeholder (it is NULL until the backfill), and for a field
\* that is not nullable the loader raises an error, it does not create the
\* record without a value for the field.
C31_UnknownKindPlaceholder ==
    InLoader =>
        \A j \in 1..Len(specs) : \A f \in UnknownKindRefs(j) :
            LET key == specs[j][1] IN
            key \in DOMAIN ml.key_to_object =>
                /\ FieldNull[f]
                /\ StepsOf("backfill") = <<>> => db.objs[ml.key_to_object[key]][f] = NoneVal
\* ------------------------------------------------------------------------
\* The resolver and the identifier map
\* ------------------------------------------------------------------------
\* every reference of a pending spec targets a declared dependency
RefsDeclared == \A k \in Pending0 : ref_keys(AttrsOf(k)) \subseteq r_deps[k]

\* C32: when every reference of a pending spec targets a declared dependency
\* of its resource, the resolver of load() is never asked for a key it cannot
\* resolve: each key it was asked for is in the identifier map or is the key
\* of a loaded resource with a target identifier, and no phase fails with
\* the resolver's ValueError.
C32_ResolverNeverFails ==
    RefsDeclared =>
        /\ err # "ValueError"
        /\ InPhase => \A c \in hist.calls : ~resolver(c[2]).raised

\* C33: the identifier map describes materialized resources only: an entry,
\* once written for a key, is never overwritten, and once a phase has failed
\* and been rolled back the map (from which the object counts of the failure
\* result are taken) holds no entry for a resource of that phase.
C33_IdentifierMapAppendOnly ==
    [][/\ \A k \in DOMAIN key_to_obj :
              k \in DOMAIN key_to_obj' /\ key_to_obj'[k] = key_to_obj[k]
       /\ Failed' => DOMAIN key_to_obj' \cap Range(graph'[pi']) = {}]_vars

\* ------------------------------------------------------------------------
\* Errors raised while the specs of a phase are prepared
\* ------------------------------------------------------------------------
\* a resource of the phase pi cannot be prepared
Unprepared ==
    /\ pi \in 1..Len(graph)
    /\ FirstUnprepared(graph[pi]) # 0

\* C34: an error raised while the specs of a phase are prepared (a key that
\* does not parse, a missing target type, a target type without a model) is
\* handled as any failing step of the phase: the exception does not leave
\* load(), load() returns a failure, the resources of the phase have the
\* error recorded and no later phase is attempted.
C34_PreparationErrorHandled ==
    /\ pc # "raised"
    /\ (Unprepared /\ pc = "done") =>
           /\ result = "failure"
           /\ \A k \in Range(graph[pi]) : db.res[k].last_error = err /\ err # ""
           /\ \A k \in LaterKeys(pi) : hist.built[k] = 0

\* ------------------------------------------------------------------------
\* Malformed reference strings in a serialized spec
\* ------------------------------------------------------------------------
\* the value holds, at some depth, a string that carries a reference prefix
RECURSIVE KeepsPrefixed(_)
KeepsPrefixed(v) ==
    CASE v.t = "str" -> HasRefPrefix(v.s)
      [] v.t = "dict" -> \E i \in 1..Len(v.items) : KeepsPrefixed(v.items[i][2])
      [] v.t \in {"list", "tuple"} -> \E i \in 1..Len(v.items) : KeepsPrefixed(v.items[i])
      [] OTHER -> FALSE

\* C35: a string of a serialized spec that carries a reference prefix and
\* whose remainder is malformed is a parse error: Spec.from_dict never hands
\* load() a spec in which such a string stands as a literal (every string
\* with a prefix has become a reference, or no spec was returned).
C35_MalformedAborts ==
    Applied("from_dict") => ~KeepsPrefixed(t_out.attributes)

\* ------------------------------------------------------------------------
\* load() called again
\* ------------------------------------------------------------------------
\* the running call began after the other call had returned
Reinvoked == hist.after # "" /\ pc # "start"

\* the resources of the phase at which the call failed and of the phases
\* after it
FailedAndUnprocessed(call) ==
    UNION {Range(call.graph[j]) : j \in call.pi..Len(call.graph)}

\* C36: a call of load() made after another has returned processes the
\* resources that are still TRANSFORMED and no other: a resource already
\* loaded gets no second record and keeps its target identifier; after a
\* call that succeeded the new call changes nothing; after a call that
\* failed the new call retries exactly the resources of the failed phase and
\* of the phases not processed, and a link to a resource loaded earlier is
\* given the stored target identifier.
C36_ReinvocationRetries ==
    Reinvoked =>
        /\ Range(hist.nodes) = {k \in Keys : hist.res0[k].status = TRANSFORMED}
        /\ \A k \in Keys :
              hist.res0[k].status = LOADED =>
                  /\ hist.made[k] = 0
                  /\ db.res[k].status = LOADED
                  /\ db.res[k].target_object_id = hist.res0[k].target_object_id
        /\ (hist.after = "success" /\ pc = "done" /\ err = "") =>
              db.res = hist.res0 /\ Len(db.objs) = hist.objs0
        /\ hist.after = "failure" => Range(hist.nodes) = FailedAndUnprocessed(other)
        /\ InPhase =>
              \A j \in 1..Len(ml.created_objects) :
                  \A C \in Keys \ Pending0 :
                      LinksTo(ml.created_objects[j][1], C) =>
                          db.objs[ml.created_objects[j][2]]["fk"]
                              = IntVal(hist.res0[C].target_object_id)

\* ------------------------------------------------------------------------
\* Two calls of load() that overlap
\* ------------------------------------------------------------------------
\* the records the database holds for the resource k (its name is the key)
RecordsOf(k) == {n \in 1..Len(db.objs) : db.objs[n]["name"] = StrVal(k)}

\* both calls were made, and each began before the other had returned
Overlapping ==
    /\ other.pc \notin {"absent", "start"}
    /\ pc # "start"
    /\ hist.after = ""
    /\ other.hist.after = ""

Written(key, pk, f) ==
    \/ db.objs[pk][f] # NewObject(EmptyMap)[f]
    \/ \E n \in 1..Len(ml.pending_refs) :
           /\ ml.pending_refs[n].obj_key = key
           /\ ml.pending_refs[n].field_name = f
           /\ ml.pending_refs[n].ref.path # <<>>

\* C38: no attribute of a spec is dropped: when the loader has gone through
\* its passes and returned the records of the phase, every attribute of every
\* spec has been written to its record, at creation or in a later pass, a
\* list holding a reference in a field that is not many-to-many and a
\* mapping holding a blob reference included.
C38_NoAttributeDropped ==
    (pc = "mark" /\ ml.created_objects # <<>>) =>
        \A j \in 1..Len(specs) : \A f \in DOMAIN specs[j][2] :
            Written(specs[j][1], ml.key_to_object[specs[j][1]], f)
====
